---- MODULE Spec2Model ----
(***************************************************************************)
(* Cheesecake scoring engine (cheesecake/cheesecake_index.py): the Index   *)
(* tree (add/remove/decide/compute_with), the run of Cheesecake over the   *)
(* built-in CheesecakeIndex tree, and FilesIndex rule matching.            *)
(***************************************************************************)
EXTENDS Integers, Sequences, FiniteSets, TLC

VARIABLES
    subindices,      \* Index.subindices of every Index instance: node -> list of nodes
    indices_dict,    \* Index._indices_dict of every instance: node -> (name -> node)
    value,           \* Index.value of every instance
    raised,          \* the exception that left the last call ("none" when it returned)
    last,            \* the last call made: [op, node]
    cheesecake,      \* the Cheesecake instance handed to the last call / of the run
    pre_subindices,  \* subindices as they were when the last call started
    calls,           \* number of API calls made so far
    removed,         \* the run's indices gone from the tree, by the phase that removed them
    pc,              \* position of Cheesecake.__init__ / compute_cheesecake_index
    events,          \* what the last call did, in order: compute_with calls, lines printed
    files_list,      \* _compute_from_rules: the candidates, each [path, kind, size]
    files_rules,     \* _compute_from_rules: name of the rule table handed in
    used_rules,      \* FilesIndex._used_rules
    files_count,     \* _compute_from_rules: files_count as returned
    files_value,     \* _compute_from_rules: value as returned
    scores,          \* _compute_from_rules: score of every candidate (0 when skipped)
    log_debug,       \* cheesecake.log.debug lines of get_score: [value, name, entry]
    steps_run,       \* the steps whose method run_step has called, in call order
    history,         \* the events of every call of the run so far, in order
    filesystem,      \* which of the run's paths exist: sandbox, sandbox_pkg_file, logfile
    cwd,             \* the working directory of the process (os.getcwd())
    generator,       \* a generate_arguments generator: its arguments, locals and position
    logger,          \* module logger: keywords2consumer, the run's producers, lines written
    docstrings       \* a call of IndexFormattedDocstrings.compute: arguments and value

treeVars == <<subindices, indices_dict, value, raised, last, cheesecake,
              pre_subindices, calls, removed, pc, events>>

rulesVars == <<files_list, files_rules, used_rules, files_count, files_value,
               scores, log_debug>>

runVars == <<steps_run, history, filesystem, cwd>>

vars == <<treeVars, rulesVars, runVars, generator, logger, docstrings>>

(***************************************************************************)
(* Bounds of the model.                                                    *)
(***************************************************************************)
MaxCalls == 2

(***************************************************************************)
(* Index instances.  The built-in tree has one instance per class, named   *)
(* after the class; "one" and "two" are plain Index() instances and        *)
(* "BadIndex" is the always-raising index of tests/unit/test_index_class.  *)
(***************************************************************************)
InstallabilityClasses ==
    <<"IndexPyPIDownload", "IndexUrlDownload", "IndexUnpack", "IndexUnpackDir",
      "IndexSetupPy", "IndexInstall", "IndexGeneratedFiles">>

DocumentationClasses ==
    <<"IndexRequiredFiles", "IndexDocstrings", "IndexFormattedDocstrings">>

CodeKwaliteeClasses == <<"IndexUnitTested", "IndexPyLint", "IndexPEP8">>

CheesecakeIndexClasses ==
    <<"IndexInstallability", "IndexDocumentation", "IndexCodeKwalitee">>

Range(s) == {s[i] : i \in DOMAIN s}

BuiltinLeaves ==
    Range(InstallabilityClasses) \cup Range(DocumentationClasses)
        \cup Range(CodeKwaliteeClasses)

BuiltinNodes == BuiltinLeaves \cup Range(CheesecakeIndexClasses) \cup {"CheesecakeIndex"}

PlainNodes == {"one", "two"}

\* A further plain Index() instance that was given the name 'one' as well.
SameNameNode == "one_again"

Nodes == BuiltinNodes \cup PlainNodes \cup {"BadIndex", SameNameNode}

\* Class attribute `subindices` of the container classes.
ClassSubindices(n) ==
    CASE n = "CheesecakeIndex"     -> CheesecakeIndexClasses
      [] n = "IndexInstallability" -> InstallabilityClasses
      [] n = "IndexDocumentation"  -> DocumentationClasses
      [] n = "IndexCodeKwalitee"   -> CodeKwaliteeClasses
      [] OTHER                     -> <<>>

\* The `name` attribute: the class name unless the class (or the test) sets it.
Name(n) ==
    CASE n = "CheesecakeIndex"     -> "Cheesecake"
      [] n = "IndexInstallability" -> "INSTALLABILITY"
      [] n = "IndexDocumentation"  -> "DOCUMENTATION"
      [] n = "IndexCodeKwalitee"   -> "CODE KWALITEE"
      [] n = "IndexSetupPy"        -> "setup.py"
      [] n = "IndexPyLint"         -> "pylint"
      [] n = "IndexPEP8"           -> "pep8"
      [] n = SameNameNode          -> "one"
      [] OTHER                     -> n

Names == {Name(n) : n \in Nodes}

\* Classes that define their own max_value attribute (hiding Index's property).
HasClassMaxValue(n) == n \in BuiltinLeaves \cup {"BadIndex"}

ClassMaxValue(n) ==
    CASE n = "IndexUrlDownload"         -> 25
      [] n = "IndexUnpack"              -> 25
      [] n = "IndexUnpackDir"           -> 15
      [] n = "IndexSetupPy"             -> 25
      [] n = "IndexInstall"             -> 50
      [] n = "IndexPyPIDownload"        -> 50
      [] n = "IndexGeneratedFiles"      -> 0
      [] n = "IndexRequiredFiles"       -> 220
      [] n = "IndexDocstrings"          -> 100
      [] n = "IndexFormattedDocstrings" -> 30
      [] n = "IndexUnitTested"          -> 30
      [] n = "IndexPyLint"              -> 50
      [] n = "IndexPEP8"                -> 34
      [] n = "BadIndex"                 -> 10
      [] OTHER                          -> 0

\* Classes that override compute(); the others use Index.compute (sum of children).
HasOwnCompute(n) == n \in BuiltinLeaves \cup {"BadIndex"}

\* get_method_arguments(self.compute): the argument names of the class's compute.
ComputeArguments(n) ==
    CASE n = "IndexUrlDownload"    -> <<"downloaded_from_url", "package", "url">>
      [] n = "IndexUnpack"         -> <<"unpacked">>
      [] n = "IndexUnpackDir"      -> <<"unpack_dir", "original_package_name">>
      [] n = "IndexSetupPy"        -> <<"files_list", "package_dir">>
      [] n = "IndexInstall"        -> <<"installed", "sandbox_install_dir">>
      [] n = "IndexPyPIDownload"   ->
            <<"package", "found_on_cheeseshop", "found_locally",
              "distance_from_pypi", "download_url">>
      [] n = "IndexGeneratedFiles" -> <<"files_list">>
      [] n = "IndexRequiredFiles"  -> <<"files_list", "dirs_list", "package_dir">>
      [] n = "IndexDocstrings"     -> <<"object_cnt", "docstring_cnt">>
      [] n = "IndexFormattedDocstrings" -> <<"object_cnt", "docformat_cnt">>
      [] n = "IndexUnitTested"     ->
            <<"doctests_count", "unittests_count", "files_list", "classes", "methods">>
      [] n = "IndexPyLint"         ->
            <<"files_list", "package_dir", "pylint_max_execution_time">>
      [] n = "IndexPEP8"           -> <<"files_list", "package_dir">>
      [] OTHER                     -> <<>>

(***************************************************************************)
(* List helpers (Python list semantics).                                   *)
(***************************************************************************)
\* list.remove(x): drop the first element equal to x (x is in the list).
ListRemove(s, x) ==
    LET i == CHOOSE k \in 1..Len(s) : s[k] = x /\ \A j \in 1..(k - 1) : s[j] # x
    IN  SubSeq(s, 1, i - 1) \o SubSeq(s, i + 1, Len(s))

RECURSIVE SumSeq(_)
SumSeq(s) == IF s = <<>> THEN 0 ELSE Head(s) + SumSeq(Tail(s))

\* make_indices_dict: name -> index, a later index of the same name wins.
make_indices_dict(indices) ==
    [k \in {Name(indices[i]) : i \in DOMAIN indices} |->
        LET i == CHOOSE j \in DOMAIN indices :
                    Name(indices[j]) = k
                    /\ \A m \in DOMAIN indices : Name(indices[m]) = k => m <= j
        IN  indices[i]]

\* The three instance attributes of all nodes, as one value.
Heap == [sub |-> subindices, dict |-> indices_dict, val |-> value, ev |-> <<>>]

(***************************************************************************)
(* The Cheesecake instance (the context handed to decide_* and             *)
(* compute_with).  name/url/path tell whether the constructor argument was *)
(* a non-empty string; favourable is the set of leaves whose inputs take   *)
(* the rewarding branch of compute(); print_fails is the set of indices    *)
(* whose print to stdout raises; missing is the set of attribute names the *)
(* instance does not have.                                                 *)
(***************************************************************************)
PackageTypes == {"tar.gz", "tgz", "zip", "egg"}

NoCheesecake ==
    [name |-> FALSE, url |-> FALSE, path |-> FALSE, static_only |-> FALSE,
     lite |-> FALSE, with_pep8 |-> FALSE, pylint_installed |-> FALSE,
     quiet |-> FALSE, package_type |-> "", favourable |-> {},
     print_fails |-> {}, pylint_timeout |-> FALSE, missing |-> {}, keep_log |-> FALSE]

\* decide_before_download / decide_after_download as overridden by the classes.
HasCustomPredicate(n, when) ==
    \/ when = "before_download"
       /\ n \in {"IndexUrlDownload", "IndexInstall", "IndexPyPIDownload",
                 "IndexPyLint", "IndexPEP8"}
    \/ when = "after_download"
       /\ n \in {"IndexUnpackDir", "IndexSetupPy", "IndexGeneratedFiles"}

\* A bug: the test of static_only inverted.
InstallPredicateInverted(ck) == ck.static_only

\* IndexInstall.decide_before_download
InstallPredicate(ck) == ~ck.static_only

Predicate(n, when, ck) ==
    IF when = "before_download"
    THEN CASE n = "IndexUrlDownload"  -> ck.url
           [] n = "IndexInstall"      -> InstallPredicate(ck)
           [] n = "IndexPyPIDownload" -> ck.name
           [] n = "IndexPyLint"       -> IF ~ck.pylint_installed THEN FALSE ELSE ~ck.lite
           [] n = "IndexPEP8"         -> ck.with_pep8
           [] OTHER                   -> TRUE
    ELSE ck.package_type # "egg"

\* get_attributes(obj, names): getattr(obj, name, None) for every name.
get_attributes(obj, names) ==
    [name \in Range(names) |-> IF name \in obj.missing THEN "None" ELSE "set"]

\* The arguments compute() of n is called with that are None.
NoneArguments(n, ck) ==
    {name \in Range(ComputeArguments(n)) :
        get_attributes(ck, ComputeArguments(n))[name] = "None"}

\* A bug: the value by the content of the inputs alone, as if none could be None.
LeafValueOfContent(n, ck) ==
    CASE n = "IndexGeneratedFiles" -> IF n \in ck.favourable THEN 0 ELSE -20
      [] OTHER -> IF n \in ck.favourable THEN ClassMaxValue(n) ELSE 0

\* The value a leaf's compute() assigns and returns.  installed, unpacked,
\* downloaded_from_url and original_package_name are true whenever they are set.
LeafValue(n, ck) ==
    CASE n = "IndexInstall" ->
            IF "installed" \in NoneArguments(n, ck) THEN 0 ELSE ClassMaxValue(n)
      [] n = "IndexUnpack" ->
            IF "unpacked" \in NoneArguments(n, ck) THEN 0 ELSE ClassMaxValue(n)
      [] n = "IndexUrlDownload" ->
            IF "downloaded_from_url" \in NoneArguments(n, ck) THEN 0 ELSE ClassMaxValue(n)
      [] n = "IndexUnpackDir" ->
            IF "original_package_name" \in NoneArguments(n, ck)
            THEN ClassMaxValue(n) ELSE 0
      [] n = "IndexPyPIDownload" ->
            IF "download_url" \in NoneArguments(n, ck) THEN 0
            ELSE IF n \in ck.favourable THEN ClassMaxValue(n) ELSE 0
      [] n = "IndexGeneratedFiles" -> IF n \in ck.favourable THEN 0 ELSE -20
      [] OTHER -> IF n \in ck.favourable THEN ClassMaxValue(n) ELSE 0

\* The arguments compute() of n cannot take as None (TypeError).
DereferencedArguments(n) ==
    CASE n = "IndexUnpackDir" -> {"unpack_dir"}
      [] n \in {"IndexSetupPy", "IndexGeneratedFiles", "IndexRequiredFiles",
                "IndexUnitTested", "IndexPyLint", "IndexPEP8"} -> {"files_list"}
      [] OTHER -> {}

\* Whether the leaf's compute() raises.
ComputeRaises(n, ck) ==
    \/ n = "BadIndex"
    \/ n = "IndexPyLint" /\ ck.pylint_timeout
    \/ DereferencedArguments(n) \cap NoneArguments(n, ck) # {}

(***************************************************************************)
(* Index._get_max_value / max_value and Index._get_requirements.           *)
(***************************************************************************)
RECURSIVE max_value(_, _), SumMaxValue(_, _)
SumMaxValue(h, indices) ==
    IF indices = <<>> THEN 0
    ELSE max_value(h, Head(indices)) + SumMaxValue(h, Tail(indices))

\* A bug: summing over the name dictionary instead of the subindices list.
max_value_from_dict(h, n) ==
    IF HasClassMaxValue(n) THEN ClassMaxValue(n)
    ELSE IF h.sub[n] # <<>>
         THEN LET d == h.dict[n]
                  RECURSIVE SumSet(_)
                  SumSet(S) == IF S = {} THEN 0
                               ELSE LET k == CHOOSE k \in S : TRUE
                                    IN  max_value(h, d[k]) + SumSet(S \ {k})
              IN  SumSet(DOMAIN d)
         ELSE 0

max_value(h, n) ==
    IF HasClassMaxValue(n) THEN ClassMaxValue(n)
    ELSE IF h.sub[n] # <<>> THEN SumMaxValue(h, h.sub[n])
         ELSE 0

RECURSIVE requirements(_, _), ReduceRequirements(_, _)
ReduceRequirements(h, indices) ==
    IF indices = <<>> THEN <<>>
    ELSE requirements(h, Head(indices)) \o ReduceRequirements(h, Tail(indices))

\* A bug: requirements fixed at construction, from the class's subindices.
RECURSIVE requirements_cached(_, _)
requirements_cached(h, n) ==
    LET RECURSIVE Reduce(_)
        Reduce(classes) ==
            IF classes = <<>> THEN <<>>
            ELSE requirements_cached(h, Head(classes)) \o Reduce(Tail(classes))
    IN  ComputeArguments(n) \o Reduce(ClassSubindices(n))

\* A bug: a node with subindices forgets the arguments of its own compute.
requirements_of_children(h, n) ==
    IF h.sub[n] # <<>>
    THEN ReduceRequirements(h, h.sub[n])
    ELSE ComputeArguments(n)

requirements(h, n) ==
    IF h.sub[n] # <<>>
    THEN ComputeArguments(n) \o ReduceRequirements(h, h.sub[n])
    ELSE ComputeArguments(n)

(***************************************************************************)
(* Index.add_subindex / Index.remove_subindex.  A result is the new heap   *)
(* and the exception raised ("none" when the call returned).               *)
(***************************************************************************)
\* big_index.add_subindex(42) of the class test: an object that is no Index.
NotAnIndex == "42"

add_subindex(h, n, index) ==
    IF index \notin Nodes
    THEN [h |-> h, exc |-> "ValueError"]
    ELSE [h |-> [h EXCEPT !.sub[n] = Append(@, index),
                          !.dict[n] = [k \in DOMAIN @ \cup {Name(index)} |->
                                          IF k = Name(index) THEN index ELSE @[k]]],
          exc |-> "none"]

remove_subindex(h, n, index_name) ==
    IF index_name \notin DOMAIN h.dict[n]
    THEN [h |-> h, exc |-> "KeyError"]
    ELSE LET index == h.dict[n][index_name]
         IN  IF index \notin Range(h.sub[n])
             THEN [h |-> h, exc |-> "ValueError"]
             ELSE [h |-> [h EXCEPT !.sub[n] = ListRemove(@, index),
                                   !.dict[n] = [k \in DOMAIN @ \ {index_name} |-> @[k]]],
                   exc |-> "none"]

(***************************************************************************)
(* Index.decide / decide_before_download / decide_after_download.          *)
(* A result is the new heap, the truth of the returned value and the       *)
(* exception raised.                                                       *)
(***************************************************************************)
\* An entry of the event log: a method called on an index, or a line printed
\* for it (with the numbers the line shows).
Event(ev, node, v, m, percentage) ==
    [ev |-> ev, node |-> node, value |-> v, max_value |-> m, percentage |-> percentage]

Call(h, method, n) == [h EXCEPT !.ev = Append(@, Event(method, n, 0, 0, 0))]

RECURSIVE decide(_, _, _, _), decide_when(_, _, _, _), decide_loop(_, _, _, _, _),
          decide_loop_keep(_, _, _, _, _)

\* getattr(index, 'decide_' + when)(cheesecake)
decide_when(h, n, when, ck) ==
    IF HasCustomPredicate(n, when)
    THEN [h |-> Call(h, "decide_" \o when, n), ret |-> Predicate(n, when, ck),
          exc |-> "none"]
    ELSE decide(Call(h, "decide_" \o when, n), n, when, ck)

\* A bug: decide asks every subindex but removes none.
decide_loop_keep(h, n, copy, when, ck) ==
    IF copy = <<>> THEN [h |-> h, exc |-> "none"]
    ELSE LET r == decide_when(h, Head(copy), when, ck)
         IN  IF r.exc # "none" THEN [h |-> r.h, exc |-> r.exc]
             ELSE decide_loop_keep(r.h, n, Tail(copy), when, ck)

\* for index in self.subindices[:]: ... remove_subindex(index.name)
decide_loop(h, n, copy, when, ck) ==
    IF copy = <<>> THEN [h |-> h, exc |-> "none"]
    ELSE LET index == Head(copy)
             r == decide_when(h, index, when, ck)
         IN  IF r.exc # "none" THEN [h |-> r.h, exc |-> r.exc]
             ELSE IF ~r.ret
                  THEN LET rm == remove_subindex(r.h, n, Name(index))
                       IN  IF rm.exc # "none" THEN rm
                           ELSE decide_loop(rm.h, n, Tail(copy), when, ck)
                  ELSE decide_loop(r.h, n, Tail(copy), when, ck)

decide(h, n, when, ck) ==
    IF h.sub[n] # <<>>
    THEN LET r == decide_loop(h, n, h.sub[n], when, ck)
         IN  [h |-> r.h, ret |-> r.h.sub[n] # <<>>, exc |-> r.exc]
    ELSE [h |-> h, ret |-> TRUE, exc |-> "none"]

(***************************************************************************)
(* Index.print_info, Index._iter_indices, Index.compute_with, compute.     *)
(***************************************************************************)
\* print_info writes to stdout unless the index has children and max_value 0.
PrintInfoPrints(h, index) ==
    IF h.sub[index] # <<>> THEN max_value(h, index) # 0 ELSE TRUE

PrintInfoRaises(h, index, ck) ==
    PrintInfoPrints(h, index) /\ index \in ck.print_fails

\* The whole percentages k for which the double float(k) / 100 * 100 is above k.
FloatExcess == {-58, -57, -29, 7, 14, 28, 55, 56}

\* The exact ceiling of value * 100 / max_value.
ExactCeilPercentage(v, m) == -((-(v * 100)) \div m)

\* int(ceil(float(self.value) / float(max_value) * 100))
CeilPercentage(v, m) ==
    IF (v * 100) % m = 0 /\ ((v * 100) \div m) \in FloatExcess
    THEN ((v * 100) \div m) + 1
    ELSE -((-(v * 100)) \div m)

\* print_info: _print_info_many for an index with subindices (nothing when its
\* max_value is 0), _print_info_one otherwise.
print_info(h, index) ==
    IF h.sub[index] # <<>>
    THEN IF max_value(h, index) = 0 THEN h
         ELSE [h EXCEPT !.ev = Append(@,
                  Event("_print_info_many", index, h.val[index], max_value(h, index),
                        CeilPercentage(h.val[index], max_value(h, index))))]
    ELSE [h EXCEPT !.ev = Append(@, Event("_print_info_one", index, h.val[index], 0, 0))]

\* A bug: the exception is silenced but the subindex stays in the list.
OnExceptionKeep(h, n, index) == h

\* except: self.subindices.remove(index)
OnException(h, n, index) == [h EXCEPT !.sub[n] = ListRemove(@, index)]

RECURSIVE compute_with(_, _, _), iter_indices(_, _, _, _, _)

\* The generator consumed by sum(): total is what sum() has added so far.
iter_indices(h, n, copy, total, ck) ==
    IF copy = <<>> THEN [h |-> h, total |-> total]
    ELSE LET index == Head(copy)
             r == compute_with(h, index, ck)
         IN  IF r.exc
             THEN iter_indices(OnException(r.h, n, index), n, Tail(copy), total, ck)
             ELSE \* the value is yielded (and added) before print_info runs
                  IF ck.quiet
                  THEN iter_indices(r.h, n, Tail(copy), total + r.ret, ck)
                  ELSE IF PrintInfoRaises(r.h, index, ck)
                  THEN iter_indices(OnException(r.h, n, index), n, Tail(copy),
                                    total + r.ret, ck)
                  ELSE iter_indices(print_info(r.h, index), n, Tail(copy),
                                    total + r.ret, ck)

\* compute_with(cheesecake): self.compute(**get_attributes(...)).
compute_with(h, n, ck) ==
    LET called == Call(h, "compute_with", n)
    IN  IF HasOwnCompute(n)
        THEN IF ComputeRaises(n, ck)
             THEN [h |-> called, ret |-> 0, exc |-> TRUE]
             ELSE [h |-> [called EXCEPT !.val[n] = LeafValue(n, ck)],
                   ret |-> LeafValue(n, ck), exc |-> FALSE]
        ELSE LET r == iter_indices(called, n, called.sub[n], 0, ck)
             IN  [h |-> [r.h EXCEPT !.val[n] = r.total], ret |-> r.total, exc |-> FALSE]

(***************************************************************************)
(* The Index API on free-standing instances: any sequence of add_subindex, *)
(* remove_subindex, decide_before_download, decide_after_download and      *)
(* compute_with calls, on trees built by the Index constructor.                        *)
(***************************************************************************)
ApiNodes ==
    PlainNodes \cup {"IndexUnpack", "IndexInstall", "IndexGeneratedFiles", "BadIndex"}

\* The instances the calls are made on: the two containers and one leaf class.
ApiTargets == PlainNodes \cup {"IndexUnpack"}

\* Index.__init__ with explicit indices, for the nodes that are given children.
RECURSIVE Constructed(_, _, _)
Constructed(h, n, indices) ==
    IF indices = <<>> THEN h
    ELSE Constructed(add_subindex(h, n, Head(indices)).h, n, Tail(indices))

EmptyHeap ==
    [sub  |-> [n \in Nodes |-> <<>>],
     dict |-> [n \in Nodes |-> <<>>],
     val  |-> [n \in Nodes |-> -1],
     ev   |-> <<>>]

NothingRemoved == [before_download |-> {}, after_download |-> {}, compute |-> {}]

\* The trees the API runs start from.
ApiConstructions ==
    { EmptyHeap,
      Constructed(EmptyHeap, "one", <<"IndexUnpack", "BadIndex", "IndexInstall">>),
      Constructed(Constructed(EmptyHeap, "one", <<"IndexUnpack", "IndexInstall">>),
                  "two", <<"one", "BadIndex">>),
      Constructed(Constructed(EmptyHeap, "one", <<"BadIndex">>),
                  "two", <<"IndexGeneratedFiles", "one">>),
      Constructed(Constructed(Constructed(EmptyHeap, "one", <<"IndexUnpack">>),
                              SameNameNode, <<"IndexInstall">>),
                  "two", <<SameNameNode, "one">>) }

Parent(sub, c) == {n \in Nodes : c \in Range(sub[n])}

RECURSIVE Descendants(_, _)
Descendants(sub, n) ==
    Range(sub[n]) \cup UNION {Descendants(sub, c) : c \in Range(sub[n])}

\* An index is owned by one parent and the tree has no cycle.
CanOwn(sub, n, index) ==
    /\ index # n
    /\ Parent(sub, index) = {}
    /\ n \notin Descendants(sub, index)

ApiDecideContexts ==
    {[NoCheesecake EXCEPT !.static_only = s, !.package_type = t] :
        s \in BOOLEAN, t \in {"tar.gz", "egg"}}

ApiComputeContexts ==
    {[NoCheesecake EXCEPT !.quiet = q, !.favourable = f, !.print_fails = pf] :
        q \in BOOLEAN,
        f \in {{}, BuiltinLeaves},
        pf \in {{}, {"IndexUnpack"}, {"one"}}}

\* Cheesecake before any run_step.
NoFiles == [sandbox |-> FALSE, sandbox_pkg_file |-> FALSE, logfile |-> FALSE]

NoStepRun ==
    steps_run = <<>> /\ history = <<>> /\ filesystem = NoFiles /\ cwd = "original_cwd"

\* No generate_arguments generator has been created.
NoGenerator ==
    [arguments |-> <<>>, max_length |-> 0, L |-> <<>>, i |-> 0, pc |-> "none",
     yielded |-> <<>>, error |-> <<>>]

\* logger as imported: Producer.keywords2consumer['default'] = default_consumer;
\* configure_logging has not run, nothing was written.  A key of the dict is a
\* str or a tuple of str: [type, items].
NoLogger ==
    [keywords2consumer |->
         [k \in {[type |-> "str", items |-> <<"default">>]} |-> "default_consumer"],
     log |-> <<>>, logfile |-> <<>>, stdout |-> <<>>, sent |-> <<>>]

\* IndexFormattedDocstrings.compute has not been called.
NoDocstrings == [object_cnt |-> 0, docformat_cnt |-> 0, value |-> 0, pc |-> "none"]

\* FilesIndex before any _compute_from_rules: _used_rules = [] (class attribute).
NoRulesRun ==
    /\ files_list = <<>>
    /\ files_rules = "none"
    /\ used_rules = <<>>
    /\ files_count = 0
    /\ files_value = 0
    /\ scores = <<>>
    /\ log_debug = <<>>

Called(op, n, ck, h, exc) ==
    /\ calls < MaxCalls
    /\ calls' = calls + 1
    /\ last' = [op |-> op, node |-> n]
    /\ cheesecake' = ck
    /\ pre_subindices' = subindices
    /\ subindices' = h.sub
    /\ indices_dict' = h.dict
    /\ value' = h.val
    /\ events' = h.ev
    /\ raised' = exc
    /\ UNCHANGED <<removed, pc, rulesVars, runVars, generator, logger, docstrings>>

AddSubindex ==
    \E n \in ApiTargets, index \in ApiNodes \cup {NotAnIndex} :
        /\ index \in Nodes => CanOwn(subindices, n, index)
        /\ LET r == add_subindex(Heap, n, index)
           IN  Called("add_subindex", n, NoCheesecake, r.h, r.exc)

RemoveSubindex ==
    \E n \in ApiTargets, index_name \in {Name(m) : m \in ApiNodes} :
        LET r == remove_subindex(Heap, n, index_name)
        IN  Called("remove_subindex", n, NoCheesecake, r.h, r.exc)

DecideBeforeDownload ==
    \E n \in ApiTargets, ck \in ApiDecideContexts :
        LET r == decide_when(Heap, n, "before_download", ck)
        IN  Called("decide_before_download", n, ck, r.h, r.exc)

DecideAfterDownload ==
    \E n \in ApiTargets, ck \in ApiDecideContexts :
        LET r == decide_when(Heap, n, "after_download", ck)
        IN  Called("decide_after_download", n, ck, r.h, r.exc)

ComputeWith ==
    \E n \in ApiTargets, ck \in ApiComputeContexts :
        LET r == compute_with(Heap, n, ck)
        IN  Called("compute_with", n, ck, r.h, IF r.exc THEN "Exception" ELSE "none")

Init ==
    /\ \E h \in ApiConstructions :
          /\ subindices = h.sub
          /\ indices_dict = h.dict
          /\ value = h.val
          /\ pre_subindices = h.sub
    /\ events = <<>>
    /\ raised = "none"
    /\ last = [op |-> "__init__", node |-> "one"]
    /\ cheesecake = NoCheesecake
    /\ calls = 0
    /\ removed = NothingRemoved
    /\ pc = "api"
    /\ NoRulesRun
    /\ NoStepRun
    /\ generator = NoGenerator
    /\ logger = NoLogger
    /\ docstrings = NoDocstrings

Next ==
    \/ AddSubindex
    \/ RemoveSubindex
    \/ DecideBeforeDownload
    \/ DecideAfterDownload
    \/ ComputeWith

Spec == Init /\ [][Next]_vars

(***************************************************************************)
(* One run of Cheesecake over the built-in tree: Cheesecake.__init__       *)
(* (index construction, decide_before_download, getting the package and    *)
(* its type, decide_after_download) and compute_cheesecake_index.          *)
(***************************************************************************)
Root == "CheesecakeIndex"

RECURSIVE InitCalls(_), InitCallsOfList(_)

\* Index.__init__ of class n: the instance, then one instance per class subindex.
InitCalls(n) == <<Event("__init__", n, 0, 0, 0)>> \o InitCallsOfList(ClassSubindices(n))

InitCallsOfList(classes) ==
    IF classes = <<>> THEN <<>>
    ELSE InitCalls(Head(classes)) \o InitCallsOfList(Tail(classes))

\* CheesecakeIndex(): every container instantiates its class's subindices.
CheesecakeIndexTree ==
    [sub  |-> [n \in Nodes |-> ClassSubindices(n)],
     dict |-> [n \in Nodes |-> make_indices_dict(ClassSubindices(n))],
     val  |-> [n \in Nodes |-> -1],
     ev   |-> InitCalls("CheesecakeIndex")]

InTree(sub) == {Root} \cup Descendants(sub, Root)

\* Constructor arguments and the environment (is pylint installed).
RunCheesecakes ==
    {[NoCheesecake EXCEPT !.name = nm, !.url = u, !.path = p, !.static_only = so,
                          !.lite = l, !.with_pep8 = w, !.pylint_installed = pi,
                          !.quiet = q, !.keep_log = k] :
        nm \in BOOLEAN, u \in BOOLEAN, p \in BOOLEAN, so \in BOOLEAN,
        l \in BOOLEAN, w \in BOOLEAN, pi \in BOOLEAN, q \in BOOLEAN, k \in BOOLEAN}

\* IndexPyLint.compute, when the tree holds the index: os.chdir(package_dir)
\* once files_list and package_dir were read, os.chdir(original_cwd) after the
\* loop over the pylint runs, which `raise OSError` leaves when pylint exceeds
\* its maximum execution time.
IndexPyLint_compute_cwd(sub, ck, original_cwd) ==
    IF /\ "IndexPyLint" \in InTree(sub)
       /\ {"files_list", "package_dir"} \cap NoneArguments("IndexPyLint", ck) = {}
       /\ ck.pylint_timeout
    THEN "package_dir"
    ELSE original_cwd

RunStep(op, nextpc, h, ck, exc, phase) ==
    /\ cwd' = IF op = "compute_cheesecake_index"
               THEN IndexPyLint_compute_cwd(subindices, ck, cwd) ELSE cwd
    /\ last' = [op |-> op, node |-> Root]
    /\ cheesecake' = ck
    /\ pre_subindices' = subindices
    /\ subindices' = h.sub
    /\ indices_dict' = h.dict
    /\ value' = h.val
    /\ events' = h.ev
    /\ history' = history \o h.ev
    /\ raised' = exc
    /\ removed' = IF phase = "none" THEN removed
                  ELSE [removed EXCEPT ![phase] = InTree(subindices) \ InTree(h.sub)]
    /\ pc' = nextpc
    /\ UNCHANGED <<calls, rulesVars, generator, logger, docstrings>>

\* Cheesecake.steps: the attributes each step provides.
Provides(step) ==
    CASE step = "get_pkg_from_pypi" ->
            {"download_url", "distance_from_pypi", "found_on_cheeseshop",
             "found_locally", "sandbox_pkg_file"}
      [] step = "download_pkg" -> {"sandbox_pkg_file", "downloaded_from_url"}
      [] step = "copy_pkg"     -> {"sandbox_pkg_file"}
      [] step = "unpack_pkg"   ->
            {"original_package_name", "sandbox_pkg_dir", "unpacked", "unpack_dir"}
      [] step = "walk_pkg"     ->
            {"dirs_list", "docstring_cnt", "docformat_cnt", "doctests_count",
             "unittests_count", "files_list", "functions", "classes", "methods",
             "object_cnt", "package_dir"}
      [] step = "install_pkg"  -> {"installed"}

\* StepByVariable: the steps that run whenever their variable is true.
StepVariable(step, ck) ==
    CASE step = "get_pkg_from_pypi" -> ck.name
      [] step = "download_pkg"      -> ck.url
      [] step = "copy_pkg"          -> ck.path
      [] OTHER                      -> FALSE

\* A bug: every step is run.
StepDecideAlways(step, h, ck) == TRUE

\* Step.decide / StepByVariable.decide
StepDecide(step, h, ck) ==
    \/ StepVariable(step, ck)
    \/ \E provide \in Provides(step) : provide \in Range(requirements(h, Root))

\* The attributes no statement of __init__ before the steps assigns.
NotYetSet ==
    UNION {Provides(step) : step \in {"get_pkg_from_pypi", "download_pkg", "copy_pkg",
                                      "unpack_pkg", "walk_pkg", "install_pkg"}}
    \ {"sandbox_pkg_file", "sandbox_pkg_dir"}

\* The attributes the step's method has assigned when it returns: unpack_pkg
\* sets original_package_name only when the unpack directory has another name,
\* install_pkg sets installed only when the installation succeeded.
StepAssigns(step) ==
    CASE step = "unpack_pkg" ->
            {Provides(step), Provides(step) \ {"original_package_name"}}
      [] step = "install_pkg" -> {Provides(step), {}}
      [] OTHER -> {Provides(step)}

\* The steps whose method can end the run through raise_exception.
StepCanFail(step) ==
    step \in {"get_pkg_from_pypi", "download_pkg", "copy_pkg", "unpack_pkg"}

\* The steps that leave the package file at sandbox_pkg_file.
StepWritesPkgFile(step) ==
    step \in {"get_pkg_from_pypi", "download_pkg", "copy_pkg"}

\* A bug: cleanup that removes the log file whatever its arguments.
cleanup_log_too(fs, remove_log_file, keep_log) == NoFiles

\* cleanup(remove_log_file): unlink sandbox_pkg_file, rmtree the sandbox, and
\* unlink the log file if remove_log_file and not self.keep_log.
cleanup(fs, remove_log_file, keep_log) ==
    [sandbox          |-> FALSE,
     sandbox_pkg_file |-> FALSE,
     logfile          |-> IF remove_log_file /\ ~keep_log THEN FALSE ELSE fs.logfile]

\* raise_exception(msg): self.cleanup(remove_log_file=False), then
\* raise CheesecakeError.
raise_exception(op) ==
    /\ RunStep(op, "failed", Heap, cheesecake, "CheesecakeError", "none")
    /\ filesystem' = cleanup(filesystem, FALSE, cheesecake.keep_log)

\* self.run_step(step) at position `from` of __init__
CallRunStep(step, from, to) ==
    /\ pc = from
    /\ IF StepDecide(step, Heap, cheesecake)
       THEN /\ steps_run' = Append(steps_run, step)
            /\ \/ /\ \E assigned \in StepAssigns(step) :
                        RunStep(step, to, Heap,
                                [cheesecake EXCEPT !.missing = @ \ assigned],
                                "none", "none")
                  /\ filesystem' = IF StepWritesPkgFile(step)
                                   THEN [filesystem EXCEPT !.sandbox_pkg_file = TRUE]
                                   ELSE filesystem
               \/ /\ StepCanFail(step)
                  /\ raise_exception(step)
       ELSE /\ UNCHANGED <<steps_run, filesystem>>
            /\ RunStep("run_step", to, Heap, cheesecake, "none", "none")

\* __init__ up to self.index = CheesecakeIndex(): the sandbox is made and the
\* log file opened.  With no name, URL or path raise_exception is called
\* before sandbox_pkg_file is assigned, and its cleanup fails on reading it.
Construct ==
    /\ pc = "start"
    /\ IF ~cheesecake.name /\ ~cheesecake.url /\ ~cheesecake.path
       THEN /\ RunStep("__init__", "failed", Heap, cheesecake, "AttributeError", "none")
            /\ UNCHANGED filesystem
       ELSE /\ RunStep("__init__", "constructed", CheesecakeIndexTree,
                       [cheesecake EXCEPT !.missing = NotYetSet], "none", "none")
            /\ filesystem' = [filesystem EXCEPT !.sandbox = TRUE, !.logfile = TRUE]
    /\ UNCHANGED steps_run

\* self.index.decide_before_download(self)
RunDecideBeforeDownload ==
    /\ pc = "constructed"
    /\ LET r == decide_when(Heap, Root, "before_download", cheesecake)
       IN  RunStep("decide_before_download", "gated_before", r.h, cheesecake, r.exc,
                   "before_download")
    /\ UNCHANGED <<steps_run, filesystem>>

GetPkgFromPypi == CallRunStep("get_pkg_from_pypi", "gated_before", "pypi_done")

DownloadPkg == CallRunStep("download_pkg", "pypi_done", "url_done")

CopyPkg == CallRunStep("copy_pkg", "url_done", "copied")

\* get_package_name_and_type: the type is recognized, or raise_exception.
GetPackageNameAndType ==
    /\ pc = "copied"
    /\ \/ /\ \E t \in PackageTypes :
               RunStep("get_package_name_and_type", "downloaded", Heap,
                       [cheesecake EXCEPT !.package_type = t], "none", "none")
          /\ UNCHANGED filesystem
       \/ raise_exception("get_package_name_and_type")
    /\ UNCHANGED steps_run

\* self.index.decide_after_download(self)
RunDecideAfterDownload ==
    /\ pc = "downloaded"
    /\ LET r == decide_when(Heap, Root, "after_download", cheesecake)
       IN  RunStep("decide_after_download", "gated_after", r.h, cheesecake, r.exc,
                   "after_download")
    /\ UNCHANGED <<steps_run, filesystem>>

UnpackPkg == CallRunStep("unpack_pkg", "gated_after", "unpacked")

WalkPkg == CallRunStep("walk_pkg", "unpacked", "walked")

InstallPkg == CallRunStep("install_pkg", "walked", "initialized")

\* What the computation meets: the packages' content, the prints that fail
\* (only when something is printed), pylint timing out (only when it runs).
RunComputeContexts(ck) ==
    {[ck EXCEPT !.favourable = f, !.print_fails = pf, !.pylint_timeout = t] :
        f \in {{}, BuiltinLeaves},
        pf \in IF ck.quiet THEN {{}}
               ELSE {{}, {"IndexUnpack"}, {"IndexDocumentation"}, BuiltinNodes},
        t \in IF "IndexPyLint" \in InTree(subindices) THEN BOOLEAN ELSE {FALSE}}

\* percentage = (cheesecake_index * 100) / max_cheesecake_index
SummaryPercentage(v, m) == (v * 100) \div m

\* compute_cheesecake_index: compute_with on the root, then the percentage and
\* the summary lines.
ComputeCheesecakeIndex ==
    /\ pc = "initialized"
    /\ \E ck \in RunComputeContexts(cheesecake) :
          LET r == compute_with(Heap, Root, ck)
              cheesecake_index == r.ret
              max_cheesecake_index == max_value(r.h, Root)
          IN  IF max_cheesecake_index = 0
              THEN RunStep("compute_cheesecake_index", "computed", r.h, ck,
                           "ZeroDivisionError", "compute")
              ELSE RunStep("compute_cheesecake_index", "computed",
                           [r.h EXCEPT !.ev = Append(@,
                               Event("summary", Root, cheesecake_index, max_cheesecake_index,
                                     SummaryPercentage(cheesecake_index,
                                                       max_cheesecake_index)))],
                           ck, "none", "compute")
    /\ UNCHANGED <<steps_run, filesystem>>

\* main: c.cleanup() once compute_cheesecake_index has returned.
Cleanup ==
    /\ pc = "computed"
    /\ raised = "none"
    /\ RunStep("cleanup", "cleaned", Heap, cheesecake, "none", "none")
    /\ filesystem' = cleanup(filesystem, TRUE, cheesecake.keep_log)
    /\ UNCHANGED steps_run

InitRun ==
    /\ cheesecake \in RunCheesecakes
    /\ subindices = EmptyHeap.sub
    /\ indices_dict = EmptyHeap.dict
    /\ value = EmptyHeap.val
    /\ events = <<>>
    /\ pre_subindices = EmptyHeap.sub
    /\ raised = "none"
    /\ last = [op |-> "none", node |-> Root]
    /\ calls = 0
    /\ removed = NothingRemoved
    /\ pc = "start"
    /\ NoRulesRun
    /\ NoStepRun
    /\ generator = NoGenerator
    /\ logger = NoLogger
    /\ docstrings = NoDocstrings

NextRun ==
    \/ Construct
    \/ RunDecideBeforeDownload
    \/ GetPkgFromPypi
    \/ DownloadPkg
    \/ CopyPkg
    \/ GetPackageNameAndType
    \/ RunDecideAfterDownload
    \/ UnpackPkg
    \/ WalkPkg
    \/ InstallPkg
    \/ ComputeCheesecakeIndex
    \/ Cleanup

SpecRun == InitRun /\ [][NextRun]_vars

(***************************************************************************)
(* FilesIndex rule matching.  File names are strings; str.lower, str.upper *)
(* and str.capitalize, os.path.splitext and os.path.basename are computed  *)
(* letter by letter as Python computes them.                               *)
(***************************************************************************)
MaxFiles == 2

ascii_lowercase == "abcdefghijklmnopqrstuvwxyz"
ascii_uppercase == "ABCDEFGHIJKLMNOPQRSTUVWXYZ"

Char(s, i) == SubSeq(s, i, i)

\* The letter of the other case, for every letter that has one.
to_lower ==
    [c \in {Char(ascii_uppercase, i) : i \in 1..Len(ascii_uppercase)} |->
        Char(ascii_lowercase,
             CHOOSE i \in 1..Len(ascii_uppercase) : Char(ascii_uppercase, i) = c)]

to_upper ==
    [c \in {Char(ascii_lowercase, i) : i \in 1..Len(ascii_lowercase)} |->
        Char(ascii_uppercase,
             CHOOSE i \in 1..Len(ascii_lowercase) : Char(ascii_lowercase, i) = c)]

Translate(c, table) == IF c \in DOMAIN table THEN table[c] ELSE c

RECURSIVE lower(_)
lower(s) == IF s = "" THEN "" ELSE Translate(Head(s), to_lower) \o lower(Tail(s))

RECURSIVE upper(_)
upper(s) == IF s = "" THEN "" ELSE Translate(Head(s), to_upper) \o upper(Tail(s))

capitalize(s) == IF s = "" THEN "" ELSE upper(Head(s)) \o lower(Tail(s))

\* str.rfind, counting places from 1: 0 when c is not in s.
RECURSIVE rfind(_, _)
rfind(s, c) ==
    IF s = "" THEN 0
    ELSE IF Char(s, Len(s)) = c THEN Len(s)
    ELSE rfind(SubSeq(s, 1, Len(s) - 1), c)

\* os.path.splitext: split at the last dot of the last path component, unless
\* only dots precede it there.
splitext(p) ==
    LET sepIndex == rfind(p, "/")
        dotIndex == rfind(p, ".")
    IN  IF /\ dotIndex > sepIndex
           /\ \E k \in (sepIndex + 1)..(dotIndex - 1) : Char(p, k) # "."
        THEN [root |-> SubSeq(p, 1, dotIndex - 1), ext |-> SubSeq(p, dotIndex, Len(p))]
        ELSE [root |-> p, ext |-> ""]

basename(p) == SubSeq(p, rfind(p, "/") + 1, Len(p))

\* is_empty(path): a file of size 0 or a directory with no entries.
is_empty_never(f) == FALSE

is_empty(f) ==
    \/ f.kind = "file" /\ f.size = 0
    \/ f.kind = "dir" /\ f.size = 0

\* A rule is a string or a OneOf object.  OneOf defines no __eq__; the built-in
\* tables hold no two OneOf objects with the same possibilities, so the record
\* identifies the object.
Literal(name) == [kind |-> "basestring", name |-> name, possibilities |-> <<>>]

OneOf(possibilities) == [kind |-> "OneOf", name |-> "", possibilities |-> possibilities]

WithOptionalExtOnly(name, extensions) ==
    OneOf([i \in DOMAIN extensions |-> Literal(name \o "." \o extensions[i])])

WithOptionalExt(name, extensions) ==
    OneOf(<<Literal(name)>> \o
          [i \in DOMAIN extensions |-> Literal(name \o "." \o extensions[i])])

Doc(name) == WithOptionalExt(name, <<"html", "txt", "rst">>)

\* IndexRequiredFiles.cheese_files, IndexRequiredFiles.cheese_dirs and
\* IndexSetupPy.files_rules, in the order the source writes them.
cheese_files ==
    << [entry |-> Doc("readme"), value |-> 30],
       [entry |-> OneOf(<<Doc("license"), Doc("copying")>>), value |-> 30],
       [entry |-> OneOf(<<Doc("announce"), Doc("changelog"), Doc("changes")>>),
        value |-> 20],
       [entry |-> Doc("install"), value |-> 20],
       [entry |-> Doc("authors"), value |-> 10],
       [entry |-> Doc("faq"), value |-> 10],
       [entry |-> Doc("news"), value |-> 10],
       [entry |-> Doc("thanks"), value |-> 10],
       [entry |-> Doc("todo"), value |-> 10] >>

cheese_dirs ==
    << [entry |-> OneOf(<<Literal("doc"), Literal("docs")>>), value |-> 30],
       [entry |-> OneOf(<<Literal("test"), Literal("tests")>>), value |-> 30],
       [entry |-> OneOf(<<Literal("demo"), Literal("example"), Literal("examples")>>),
        value |-> 10] >>

setup_py_files_rules == << [entry |-> Literal("setup.py"), value |-> 25] >>

\* A table a FilesIndex can be handed whose rules overlap: the string 'demo' as
\* a rule of its own (as in the doctest of get_not_used) and inside a OneOf.
overlapping_rules ==
    << [entry |-> Literal("demo"), value |-> 10],
       [entry |-> OneOf(<<Literal("demo"), Literal("examples")>>), value |-> 30] >>

RuleTables == {"cheese_files", "cheese_dirs", "files_rules", "overlapping_rules"}

RuleTable(t) ==
    CASE t = "cheese_files" -> cheese_files
      [] t = "cheese_dirs"  -> cheese_dirs
      [] t = "files_rules"  -> setup_py_files_rules
      [] t = "overlapping_rules" -> overlapping_rules

\* specs.iteritems(): a dict is walked in an order the program does not choose.
Rotated(t, k) == [i \in 1..Len(t) |-> t[((i + k - 1) % Len(t)) + 1]]

Reversed(t) == [i \in 1..Len(t) |-> t[Len(t) + 1 - i]]

IterItems(t) == {t, Reversed(t), Rotated(t, Len(t) \div 2)}

\* Candidate names: those of tests/unit/test_cheese_files.py and further casings.
FileNames ==
    {"Readme", "README.txt", "readme.rst", "ReAdMe", "install.txt.txt", "setup.py.txt",
     "todoGARBAGE", "news.Txt", "news.TXT", "INSTALL.txt", "doc/README", "COPYING",
     "License.html", "NEWS.HTML", "news"}

SetupNames ==
    {"setup.py", "Setup.py", "SETUP.PY", "setup.Py", "setup.py.txt", "setupXpy",
     "newsXtxt"}

DirNames == {"doc", "Docs", "TESTS", "test", "examples", "Demo", "dOc", "testsX"}

InList(x, list) == \E i \in DOMAIN list : list[i] = x

\* match_filename.equal
equal_ignoring_case(x, y) == lower(x) = lower(y)

equal_lower_only(x, y) ==
    LET xs == splitext(x)
        ys == splitext(lower(y))
    IN  xs.root = lower(ys.root) /\ xs.ext = lower(ys.ext)

equal(x, y) ==
    LET xs == splitext(x)
        ys == splitext(lower(y))
    IN  /\ xs.root \in {lower(ys.root), upper(ys.root), capitalize(ys.root)}
        /\ xs.ext \in {lower(ys.ext), upper(ys.ext)}

\* equal over the names of this model, computed once.
RECURSIVE Literals(_)
Literals(rule) ==
    IF rule.kind = "basestring" THEN {rule.name}
    ELSE UNION {Literals(rule.possibilities[i]) : i \in DOMAIN rule.possibilities}

RuleLiterals ==
    UNION {UNION {Literals(RuleTable(t)[i].entry) : i \in 1..Len(RuleTable(t))} :
           t \in RuleTables}

BaseNames == {basename(n) : n \in FileNames \cup SetupNames \cup DirNames}

equal_table == [x \in BaseNames, y \in RuleLiterals |-> equal(x, y)]

\* match_filename: `if rule in self._used_rules: return False`
AlreadyUsedNever(used, rule) == FALSE

\* A bug: any consumed rule blocks every rule.
AlreadyUsedAny(used, rule) == used # <<>>

AlreadyUsed(used, rule) == InList(rule, used)

\* match_filename(name, rule) with self._used_rules = used: [used, ret].
RECURSIVE match_filename(_, _, _), match_possibilities(_, _, _)
match_possibilities(used, name, possibilities) ==
    IF possibilities = <<>> THEN [used |-> used, ret |-> FALSE]
    ELSE LET m == match_filename(used, name, Head(possibilities))
         IN  IF m.ret THEN m
             ELSE match_possibilities(m.used, name, Tail(possibilities))

match_filename(used, name, rule) ==
    IF AlreadyUsed(used, rule) THEN [used |-> used, ret |-> FALSE]
    ELSE IF rule.kind = "basestring"
    THEN IF equal_table[name, rule.name]
         THEN [used |-> Append(used, rule), ret |-> TRUE]
         ELSE [used |-> used, ret |-> FALSE]
    ELSE LET m == match_possibilities(used, name, rule.possibilities)
         IN  IF m.ret THEN [used |-> Append(m.used, rule), ret |-> TRUE]
             ELSE [used |-> m.used, ret |-> FALSE]

\* get_score(name, specs), specs in iteration order: [used, log, ret].
RECURSIVE get_score(_, _, _, _)
get_score(used, log, name, specs) ==
    IF specs = <<>> THEN [used |-> used, log |-> log, ret |-> 0]
    ELSE LET m == match_filename(used, name, Head(specs).entry)
         IN  IF m.ret
             THEN [used |-> m.used,
                   log  |-> Append(log, [value |-> Head(specs).value, name |-> name,
                                         entry |-> Head(specs).entry]),
                   ret  |-> Head(specs).value]
             ELSE get_score(m.used, log, name, Tail(specs))

\* _compute_from_rules: `if score != 0`
ScoredAlways(score) == TRUE

Scored(score) == score # 0

\* The loop of _compute_from_rules over the candidates still to visit.
RECURSIVE compute_from_rules_loop(_, _, _)
compute_from_rules_loop(acc, files, specs) ==
    IF files = <<>> THEN acc
    ELSE LET filename == Head(files)
             s == get_score(acc.used, acc.log, basename(filename.path), specs)
         IN  IF is_empty(filename)
             THEN compute_from_rules_loop(
                      [acc EXCEPT !.scores = Append(@, 0)], Tail(files), specs)
             ELSE compute_from_rules_loop(
                      [used        |-> s.used,
                       log         |-> s.log,
                       scores      |-> Append(acc.scores, s.ret),
                       value       |-> IF Scored(s.ret) THEN acc.value + s.ret
                                       ELSE acc.value,
                       files_count |-> IF Scored(s.ret) THEN acc.files_count + 1
                                       ELSE acc.files_count],
                      Tail(files), specs)

compute_from_rules(files, specs) ==
    compute_from_rules_loop(
        [used |-> <<>>, log |-> <<>>, scores |-> <<>>, value |-> 0, files_count |-> 0],
        files, specs)

\* get_not_used(files_rules): the rules that are not in self._used_rules.
get_not_used(used, rules) == SelectSeq(rules, LAMBDA rule : ~InList(rule, used))

NonEmptyFile(n) == [path |-> n, kind |-> "file", size |-> 1]

EmptyFile(n) == [path |-> n, kind |-> "file", size |-> 0]

NonEmptyDir(n) == [path |-> n, kind |-> "dir", size |-> 1]

EmptyDir(n) == [path |-> n, kind |-> "dir", size |-> 0]

\* What walk_pkg can hand to the run with table t: files for cheese_files and
\* files_rules, directories for cheese_dirs.
Candidates(t) ==
    CASE t = "cheese_files" ->
            {NonEmptyFile(n) : n \in FileNames} \cup
            {EmptyFile(n) : n \in {"Readme", "INSTALL"}}
      [] t = "cheese_dirs" ->
            {NonEmptyDir(n) : n \in DirNames} \cup {EmptyDir("doc")}
      [] t = "files_rules" ->
            {NonEmptyFile(n) : n \in SetupNames} \cup {EmptyFile("setup.py")}
      [] t = "overlapping_rules" ->
            {NonEmptyDir(n) : n \in DirNames} \cup {EmptyDir("doc")}

ListsOf(S, n) == UNION {[1..k -> S] : k \in 0..n}

\* self._compute_from_rules(files_list, package_dir, files_rules)
ComputeFromRules ==
    /\ pc = "rules_start"
    /\ \E specs \in IterItems(RuleTable(files_rules)) :
          LET r == compute_from_rules(files_list, specs)
          IN  /\ used_rules' = r.used
              /\ files_count' = r.files_count
              /\ files_value' = r.value
              /\ scores' = r.scores
              /\ log_debug' = r.log
    /\ pc' = "rules_done"
    /\ UNCHANGED <<files_list, files_rules, subindices, indices_dict, value, raised,
                   last, cheesecake, pre_subindices, calls, removed, events, runVars,
                   generator, logger, docstrings>>

InitRules ==
    /\ files_rules \in RuleTables
    /\ files_list \in ListsOf(Candidates(files_rules), MaxFiles)
    /\ used_rules = <<>>
    /\ files_count = 0
    /\ files_value = 0
    /\ scores = <<>>
    /\ log_debug = <<>>
    /\ subindices = EmptyHeap.sub
    /\ indices_dict = EmptyHeap.dict
    /\ value = EmptyHeap.val
    /\ events = <<>>
    /\ pre_subindices = EmptyHeap.sub
    /\ raised = "none"
    /\ last = [op |-> "none", node |-> "IndexRequiredFiles"]
    /\ cheesecake = NoCheesecake
    /\ calls = 0
    /\ removed = NothingRemoved
    /\ pc = "rules_start"
    /\ NoStepRun
    /\ generator = NoGenerator
    /\ logger = NoLogger
    /\ docstrings = NoDocstrings

NextRules == ComputeFromRules

SpecRules == InitRules /\ [][NextRules]_vars

(***************************************************************************)
(* generate_arguments(arguments, max_length): the generator consumed by    *)
(* a for loop, one action per next().  generator.yielded collects what the *)
(* consumer received; generator.error is <<x>> once ValueError naming x    *)
(* was raised.  i is the 0-based index of the code.                        *)
(***************************************************************************)
MaxArgs == 3
MaxLength == 3

Strings == {"", "a", "bc", "def"}

\* The calls of the docstring.
DoctestCalls ==
    {[arguments |-> <<"abc", "def">>, max_length |-> 4],
     [arguments |-> <<"a", "bc", "d", "e", "f">>, max_length |-> 2],
     [arguments |-> <<"abc", "de", "fghijk", "l">>, max_length |-> 4]}

GeneratorCalls ==
    DoctestCalls \cup
    {[arguments |-> a, max_length |-> m] :
        a \in UNION {[1..n -> Strings] : n \in 0..MaxArgs}, m \in 0..MaxLength}

len(x) == Len(x)

RECURSIVE length(_)

\* A bug: length that counts the strings, not their characters.
length_of_list(L) == Len(L)

\* length(L): overall length of all strings in the list.
length(L) == IF L = <<>> THEN 0 ELSE len(Head(L)) + length(Tail(L))

RECURSIVE generate_arguments_loop(_), generate_arguments_first_only(_)

\* A bug: only the first argument is checked against max_length.
generate_arguments_first_only(g) ==
    IF g.arguments = <<>> THEN [g EXCEPT !.pc = "stopped"]
    ELSE LET x == g.arguments[g.i + 1]
             L == Append(g.L, x)
         IN  IF g.i = 0 /\ len(x) > g.max_length
             THEN [g EXCEPT !.pc = "raised", !.error = <<x>>]
             ELSE IF g.i = Len(g.arguments) - 1
             THEN [g EXCEPT !.L = L, !.yielded = Append(@, L), !.pc = "yielded_last"]
             ELSE IF length(L) + len(g.arguments[g.i + 2]) > g.max_length
             THEN [g EXCEPT !.L = L, !.yielded = Append(@, L), !.pc = "yielded"]
             ELSE generate_arguments_first_only([g EXCEPT !.L = L, !.i = @ + 1])

\* The while loop from its head up to the next yield, raise or end.
generate_arguments_loop(g) ==
    IF g.arguments = <<>> THEN [g EXCEPT !.pc = "stopped"]
    ELSE LET x == g.arguments[g.i + 1]
             L == Append(g.L, x)
         IN  IF g.L = <<>> /\ len(x) > g.max_length
             THEN [g EXCEPT !.pc = "raised", !.error = <<x>>]
             ELSE IF g.i = Len(g.arguments) - 1
             THEN [g EXCEPT !.L = L, !.yielded = Append(@, L), !.pc = "yielded_last"]
             ELSE IF length(L) + len(g.arguments[g.i + 2]) > g.max_length
             THEN [g EXCEPT !.L = L, !.yielded = Append(@, L), !.pc = "yielded"]
             ELSE generate_arguments_loop([g EXCEPT !.L = L, !.i = @ + 1])

\* next() on the generator: from the start, after a yield (L = [], i += 1),
\* or after the last yield (break).
generate_arguments(g) ==
    CASE g.pc = "start"        -> generate_arguments_loop(g)
      [] g.pc = "yielded"      -> generate_arguments_loop([g EXCEPT !.L = <<>>, !.i = @ + 1])
      [] g.pc = "yielded_last" -> [g EXCEPT !.pc = "stopped"]

GeneratorNext ==
    /\ generator.pc \in {"start", "yielded", "yielded_last"}
    /\ generator' = generate_arguments(generator)
    /\ UNCHANGED <<treeVars, rulesVars, runVars, logger, docstrings>>

InitArguments ==
    /\ \E c \in GeneratorCalls :
          generator = [NoGenerator EXCEPT !.arguments = c.arguments,
                                          !.max_length = c.max_length, !.pc = "start"]
    /\ subindices = EmptyHeap.sub
    /\ indices_dict = EmptyHeap.dict
    /\ value = EmptyHeap.val
    /\ events = <<>>
    /\ pre_subindices = EmptyHeap.sub
    /\ raised = "none"
    /\ last = [op |-> "none", node |-> "IndexPyLint"]
    /\ cheesecake = NoCheesecake
    /\ calls = 0
    /\ removed = NothingRemoved
    /\ pc = "arguments"
    /\ NoRulesRun
    /\ NoStepRun
    /\ logger = NoLogger
    /\ docstrings = NoDocstrings

NextArguments == GeneratorNext

\* The for loop of the consumer calls next() until the generator ends.
SpecArguments == InitArguments /\ [][NextArguments]_vars /\ WF_vars(GeneratorNext)

(***************************************************************************)
(* Logging.  logger.keywords2consumer is the dict of class Producer; the   *)
(* consumers are None, a function (STDOUT, default_consumer) or a File     *)
(* around the log file's descriptor.  logger.logfile and logger.stdout are *)
(* the lines the consumers have written.                                   *)
(***************************************************************************)
MaxMessages == 3

\* str.split() of keywords written with single spaces.
RECURSIVE split(_)
split(s) ==
    IF s = "" THEN <<>>
    ELSE LET i == rfind(s, " ")
             word == SubSeq(s, i + 1, Len(s))
         IN  IF i = 0 THEN <<s>>
             ELSE split(SubSeq(s, 1, i - 1)) \o (IF word = "" THEN <<>> ELSE <<word>>)

RECURSIVE join(_, _)
join(sep, items) ==
    IF items = <<>> THEN ""
    ELSE IF Len(items) = 1 THEN items[1]
    ELSE items[1] \o sep \o join(sep, Tail(items))

\* Message.__str__: prefix() + content()
Message(keywords, content) == "[" \o join(":", keywords) \o "] " \o content

\* setconsumer(keywords, consumer) with keywords a str: the key is the tuple of
\* its words; a consumer that is neither None nor callable is wrapped in File.
setconsumer(keywords2consumer, keywords, consumer) ==
    LET key == [type |-> "tuple", items |-> split(keywords)]
        stored == IF consumer \in {"None", "STDOUT", "default_consumer"} THEN consumer
                  ELSE "File"
    IN  [k \in DOMAIN keywords2consumer \cup {key} |->
            IF k = key THEN stored ELSE keywords2consumer[k]]

\* MultipleProducer._getconsumer: keywords2consumer.get((keyword,)) for every
\* keyword; the default consumer only when there is no keyword at all.
getconsumer(keywords2consumer, keywords) ==
    IF keywords = <<>>
    THEN LET default == [type |-> "str", items |-> <<"default">>]
         IN  << IF default \in DOMAIN keywords2consumer
                THEN keywords2consumer[default] ELSE "default_consumer" >>
    ELSE [i \in DOMAIN keywords |->
            LET key == [type |-> "tuple", items |-> <<keywords[i]>>]
            IN  IF key \in DOMAIN keywords2consumer
                THEN keywords2consumer[key] ELSE "None"]

\* A consumer called with a message: File prints to its file, STDOUT and
\* default_consumer print to sys.stdout.
Consume(lg, func, line) ==
    IF func = "File" THEN [lg EXCEPT !.logfile = Append(@, line)]
    ELSE [lg EXCEPT !.stdout = Append(@, line)]

\* MultipleProducer.__call__ over the consumers still to visit:
\* `return func(...)` at the first consumer that is not None.
RECURSIVE MultipleProducer_call(_, _, _)
MultipleProducer_call(lg, consumers, line) ==
    IF consumers = <<>> THEN lg
    ELSE IF Head(consumers) # "None" THEN Consume(lg, Head(consumers), line)
    ELSE MultipleProducer_call(lg, Tail(consumers), line)

\* Cheesecake.configure_logging
configure_logging(lg) ==
    [lg EXCEPT
       !.keywords2consumer =
           setconsumer(setconsumer(setconsumer(@, "logfile", "logfile_descriptor"),
                                   "console", "STDOUT"),
                       "null", "None"),
       \* Producer.__init__ keeps the words of its argument.
       !.log = [log   |-> split("cheesecake logfile"),
                info  |-> split("cheesecake logfile"),
                debug |-> split("cheesecake logfile"),
                warn  |-> split("cheesecake console"),
                error |-> split("cheesecake console")]]

ConfigureLogging ==
    /\ pc = "logging_start"
    /\ logger' = configure_logging(logger)
    /\ pc' = "logging_configured"
    /\ UNCHANGED <<subindices, indices_dict, value, raised, last, cheesecake,
                   pre_subindices, calls, removed, events, rulesVars, runVars,
                   generator, docstrings>>

\* self.log(msg), self.log.info(msg), ..., self.log.error(msg)
Log ==
    /\ pc = "logging_configured"
    /\ Len(logger.sent) < MaxMessages
    /\ \E producer \in DOMAIN logger.log :
          LET content == "Removing file"
              keywords == logger.log[producer]
          IN  logger' = [MultipleProducer_call(
                             logger, getconsumer(logger.keywords2consumer, keywords),
                             Message(keywords, content))
                           EXCEPT !.sent = Append(@, [producer |-> producer,
                                                      content  |-> content])]
    /\ UNCHANGED <<treeVars, rulesVars, runVars, generator, docstrings>>

InitLogging ==
    /\ logger = NoLogger
    /\ docstrings = NoDocstrings
    /\ subindices = EmptyHeap.sub
    /\ indices_dict = EmptyHeap.dict
    /\ value = EmptyHeap.val
    /\ events = <<>>
    /\ pre_subindices = EmptyHeap.sub
    /\ raised = "none"
    /\ last = [op |-> "none", node |-> Root]
    /\ cheesecake = NoCheesecake
    /\ calls = 0
    /\ removed = NothingRemoved
    /\ pc = "logging_start"
    /\ NoRulesRun
    /\ NoStepRun
    /\ generator = NoGenerator

NextLogging == ConfigureLogging \/ Log

SpecLogging == InitLogging /\ [][NextLogging]_vars

(***************************************************************************)
(* IndexFormattedDocstrings.compute(object_cnt, docformat_cnt), the counts *)
(* being those walk_pkg adds up over the modules of the package.           *)
(***************************************************************************)
MaxObjects == 12

\* percent = float(docformat_cnt)/float(object_cnt) when object_cnt > 0, else 0;
\* percent > 0.75, > 0.50, > 0.25.  0.75, 0.5 and 0.25 are floats and the
\* quotient of two small integers is rounded to the nearest float, so
\* percent > 0.75 exactly when 4 * docformat_cnt > 3 * object_cnt.
IndexFormattedDocstrings_compute(object_cnt, docformat_cnt) ==
    IF object_cnt > 0 /\ 4 * docformat_cnt > 3 * object_cnt THEN 30
    ELSE IF object_cnt > 0 /\ 2 * docformat_cnt > object_cnt THEN 20
    ELSE IF object_cnt > 0 /\ 4 * docformat_cnt > object_cnt THEN 10
    ELSE 0

FormattedDocstringsCompute ==
    /\ docstrings.pc = "start"
    /\ docstrings' =
           [docstrings EXCEPT
              !.value = IndexFormattedDocstrings_compute(docstrings.object_cnt,
                                                         docstrings.docformat_cnt),
              !.pc = "returned"]
    /\ UNCHANGED <<treeVars, rulesVars, runVars, generator, logger>>

InitDocstrings ==
    /\ \E object_cnt \in 0..MaxObjects : \E docformat_cnt \in 0..object_cnt :
          docstrings = [object_cnt |-> object_cnt, docformat_cnt |-> docformat_cnt,
                        value |-> 0, pc |-> "start"]
    /\ logger = NoLogger
    /\ subindices = EmptyHeap.sub
    /\ indices_dict = EmptyHeap.dict
    /\ value = EmptyHeap.val
    /\ events = <<>>
    /\ pre_subindices = EmptyHeap.sub
    /\ raised = "none"
    /\ last = [op |-> "none", node |-> "IndexFormattedDocstrings"]
    /\ cheesecake = NoCheesecake
    /\ calls = 0
    /\ removed = NothingRemoved
    /\ pc = "docstrings"
    /\ NoRulesRun
    /\ NoStepRun
    /\ generator = NoGenerator

NextDocstrings == FormattedDocstringsCompute

SpecDocstrings == InitDocstrings /\ [][NextDocstrings]_vars

(***************************************************************************)
(* Properties of the Index tree.                                           *)
(***************************************************************************)
ValuesOf(indices) == [i \in DOMAIN indices |-> value[indices[i]]]

\* C1: fault isolation.  When compute_with returns on a node using Index.compute
\* whose children were [A, B, C], where B's compute_with raised and no other
\* step of the iteration raised, the node's subindices are exactly [A, C], its
\* value is A.value + C.value and no exception reached the caller.
C1_FaultIsolation ==
    \A n \in ApiTargets :
        ( /\ last = [op |-> "compute_with", node |-> n]
          /\ ~HasOwnCompute(n)
          /\ Len(pre_subindices[n]) = 3
          /\ ComputeRaises(pre_subindices[n][2], cheesecake)
          /\ ~ComputeRaises(pre_subindices[n][1], cheesecake)
          /\ ~ComputeRaises(pre_subindices[n][3], cheesecake)
          /\ cheesecake.print_fails = {} )
        => /\ subindices[n] = <<pre_subindices[n][1], pre_subindices[n][3]>>
           /\ value[n] = value[pre_subindices[n][1]] + value[pre_subindices[n][3]]
           /\ raised = "none"

\* Index(IndexUnpack, BadIndex, IndexInstall) computed, not quiet: BadIndex is gone.
C1_Witness ==
    /\ last = [op |-> "compute_with", node |-> "one"]
    /\ pre_subindices["one"] = <<"IndexUnpack", "BadIndex", "IndexInstall">>
    /\ ~cheesecake.quiet
    /\ cheesecake.print_fails = {}
    /\ subindices["one"] = <<"IndexUnpack", "IndexInstall">>
    /\ value["one"] = 75
    /\ raised = "none"

\* C2 as stated: in every state reached by the API calls, a node with children
\* has max_value equal to the sum of its current children's max_value, and a
\* node without children has its class constant (0 for a plain Index).
C2_MaxValueAsStated ==
    \A n \in ApiNodes :
        IF subindices[n] # <<>>
        THEN max_value(Heap, n) = SumMaxValue(Heap, subindices[n])
        ELSE max_value(Heap, n) = (IF HasClassMaxValue(n) THEN ClassMaxValue(n) ELSE 0)

\* C2, amended: in every state reached by the API calls, a node whose class
\* does not define max_value has max_value equal to the sum of the max_value of
\* the children currently in its subindices (0 without children), and a node
\* whose class defines max_value has that constant, with or without children.
C2_MaxValue ==
    \A n \in ApiNodes :
        IF HasClassMaxValue(n)
        THEN max_value(Heap, n) = ClassMaxValue(n)
        ELSE max_value(Heap, n) = SumMaxValue(Heap, subindices[n])

\* After a fault removed BadIndex, the container's max_value is 25 + 50.
C2_Witness ==
    /\ last.op = "compute_with"
    /\ "BadIndex" \in Range(pre_subindices["one"])
    /\ subindices["one"] = <<"IndexUnpack", "IndexInstall">>
    /\ max_value(Heap, "one") = 75
    /\ max_value(Heap, "IndexUnpack") = 25

\* C3 as stated: after compute_with returns on a node using Index.compute, its
\* value is the sum of the values of the children still in its subindices,
\* whichever step of a removed child raised (compute_with or print_info).
C3_ValueIsSumOfSurvivors ==
    \A n \in ApiTargets :
        (last = [op |-> "compute_with", node |-> n] /\ ~HasOwnCompute(n))
        => value[n] = SumSeq(ValuesOf(subindices[n]))

(***************************************************************************)
(* Properties of the run over the built-in tree.                           *)
(***************************************************************************)
GatedBefore ==
    pc \in {"gated_before", "pypi_done", "url_done", "copied", "downloaded", "gated_after",
            "unpacked", "walked", "initialized", "computed", "cleaned"}

\* The argument names required by the indices currently in the tree.
RequiredInTree == UNION {Range(ComputeArguments(m)) : m \in InTree(subindices)}

\* C9: gating irreversibility.  In every state of the run after
\* decide_before_download, an index that call removed is not in the tree, and
\* every input name that no index of the tree requires (so only removed ones
\* did) is absent from the root's requirements.
C9_GatingIrreversible ==
    GatedBefore =>
        \A n \in removed.before_download :
            /\ n \notin InTree(subindices)
            /\ \A a \in Range(ComputeArguments(n)) :
                  a \notin RequiredInTree => a \notin Range(requirements(Heap, Root))

\* static_only: IndexInstall was removed before the download and, after the
\* computation, is still absent, with "installed" no longer required.
C9_Witness ==
    /\ pc = "computed"
    /\ "IndexInstall" \in removed.before_download
    /\ "IndexInstall" \notin Range(subindices["IndexInstallability"])
    /\ "installed" \notin Range(requirements(Heap, Root))
    /\ "unpacked" \in Range(requirements(Heap, Root))

\* The children of INSTALLABILITY the claim C10 expects.
C10_Expected(c) ==
    CASE c = "IndexUnpack"       -> TRUE
      [] c = "IndexPyPIDownload" -> cheesecake.name
      [] c = "IndexUrlDownload"  -> cheesecake.url
      [] c = "IndexInstall"      -> ~cheesecake.static_only
      [] OTHER                   -> cheesecake.package_type # "egg"

\* C10: after both gating phases the children of INSTALLABILITY are exactly
\* IndexUnpack, IndexPyPIDownload iff a name was given, IndexUrlDownload iff a
\* URL was given, IndexInstall iff static_only is off, and IndexUnpackDir,
\* IndexSetupPy, IndexGeneratedFiles iff the package type is not 'egg'; and
\* INSTALLABILITY.max_value is the sum of those leaves' max_value constants.
C10_InstallabilityChildren ==
    pc = "gated_after" =>
        LET expected == SelectSeq(InstallabilityClasses, C10_Expected)
        IN  /\ subindices["IndexInstallability"] = expected
            /\ max_value(Heap, "IndexInstallability")
                  = SumSeq([i \in DOMAIN expected |-> ClassMaxValue(expected[i])])

\* A static run on an egg given by name: only the PyPI download and the unpack.
C10_Witness ==
    /\ pc = "gated_after"
    /\ cheesecake.static_only /\ cheesecake.name /\ ~cheesecake.url
    /\ cheesecake.package_type = "egg"
    /\ subindices["IndexInstallability"] = <<"IndexPyPIDownload", "IndexUnpack">>
    /\ max_value(Heap, "IndexInstallability") = 75

(***************************************************************************)
(* Properties of FilesIndex rule matching.                                 *)
(***************************************************************************)
RulesDone == pc = "rules_done"

\* What the entry of the table added to the run's value, by the log of get_score.
Contribution(entry) ==
    SumSeq([k \in DOMAIN log_debug |->
               IF log_debug[k].entry = entry THEN log_debug[k].value ELSE 0])

LoggedNames == [k \in DOMAIN log_debug |-> log_debug[k].name]

\* C4: within one run of _compute_from_rules a rule is consumed at most once: no
\* two candidates are attributed to the same rule, every rule of the table adds
\* either its weight, once, or nothing to the run's value, and the value is the
\* sum of those contributions; for the non-empty candidates 'Readme' then
\* 'README.txt' only 'Readme' is counted.
C4_ConsumedAtMostOnce ==
    RulesDone =>
        /\ \A i, j \in DOMAIN log_debug : i < j => log_debug[i].entry # log_debug[j].entry
        /\ \A e \in Range(RuleTable(files_rules)) : Contribution(e.entry) \in {0, e.value}
        /\ files_value = SumSeq(scores)
        /\ files_value = SumSeq([k \in DOMAIN log_debug |-> log_debug[k].value])
        /\ (/\ files_rules = "cheese_files"
            /\ files_list = <<NonEmptyFile("Readme"), NonEmptyFile("README.txt")>>)
           => LoggedNames = <<"Readme">>

C4_Witness ==
    /\ RulesDone
    /\ files_rules = "cheese_files"
    /\ files_list = <<NonEmptyFile("Readme"), NonEmptyFile("README.txt")>>
    /\ scores = <<30, 0>>
    /\ files_value = 30

\* C5: an empty candidate (a file of length zero, a directory with no entries)
\* adds nothing to the value and to the matched count and consumes no rule, even
\* under a name a rule accepts: every log line and every consumed rule belongs to
\* a non-empty candidate, and a later non-empty candidate still consumes the rule.
C5_EmptyExcluded ==
    RulesDone =>
        /\ \A i \in DOMAIN files_list : files_list[i].size = 0 => scores[i] = 0
        /\ files_count = Cardinality({i \in DOMAIN files_list : scores[i] # 0})
        /\ Len(log_debug) = Cardinality({i \in DOMAIN files_list :
                                            files_list[i].size # 0 /\ scores[i] # 0})
        /\ \A k \in DOMAIN log_debug :
              \E i \in DOMAIN files_list :
                  /\ files_list[i].size # 0
                  /\ basename(files_list[i].path) = log_debug[k].name
                  /\ scores[i] = log_debug[k].value
        /\ \A e \in Range(RuleTable(files_rules)) :
              /\ (\E k \in DOMAIN log_debug : log_debug[k].entry = e.entry)
                    => InList(e.entry, used_rules)
              /\ InList(e.entry, used_rules) =>
                    \E k \in DOMAIN log_debug :
                        \/ log_debug[k].entry = e.entry
                        \/ /\ e.entry.kind = "basestring"
                           /\ e.entry.name \in Literals(log_debug[k].entry)
        /\ log_debug = <<>> => used_rules = <<>>
        /\ (/\ files_rules = "cheese_files"
            /\ files_list = <<EmptyFile("Readme"), NonEmptyFile("Readme")>>)
           => scores = <<0, 30>>

C5_Witness ==
    /\ RulesDone
    /\ files_rules = "cheese_files"
    /\ files_list = <<EmptyFile("Readme"), NonEmptyFile("Readme")>>
    /\ scores = <<0, 30>>
    /\ files_count = 1
    /\ Len(used_rules) = 2

\* C6: each of the non-empty candidates 'Readme', 'README.txt' and 'readme.rst',
\* alone, matches the rule WithOptionalExt('readme', ['html', 'txt', 'rst']);
\* 'Readme' then 'README.txt' consume it once, by the first, and its weight is
\* added exactly once.
C6_CaseTolerance ==
    RulesDone /\ files_rules = "cheese_files" =>
        /\ \A n \in {"Readme", "README.txt", "readme.rst"} :
              files_list = <<NonEmptyFile(n)>> =>
                  /\ files_count = 1
                  /\ files_value = 30
                  /\ log_debug =
                        << [value |-> 30, name |-> n,
                            entry |-> WithOptionalExt("readme", <<"html", "txt", "rst">>)] >>
        /\ files_list = <<NonEmptyFile("Readme"), NonEmptyFile("README.txt")>> =>
              /\ files_count = 1
              /\ files_value = 30
              /\ scores = <<30, 0>>
              /\ Len(log_debug) = 1

C6_Witness ==
    /\ RulesDone
    /\ files_rules = "cheese_files"
    /\ files_list = <<NonEmptyFile("README.txt")>>
    /\ files_value = 30
    /\ files_count = 1

\* Names that differ from every rule literal by extra characters or an extra extension.
C7_ExtraCharacters ==
    {"install.txt.txt", "setup.py.txt", "setupXpy", "newsXtxt", "todoGARBAGE", "testsX"}

C7_OtherCasing(name) ==
    LET root == splitext(name).root
    IN  root \notin {lower(root), upper(root), capitalize(root)}

\* C7: a candidate whose base name is in a casing other than all-lower, all-UPPER
\* or Capitalized, or that differs from every rule literal by extra characters or
\* an extra extension, matches and consumes no rule of the built-in tables.
C7_BogusNeverMatches ==
    RulesDone =>
        \A i \in DOMAIN files_list :
            LET name == basename(files_list[i].path)
            IN  C7_OtherCasing(name) \/ name \in C7_ExtraCharacters =>
                    /\ scores[i] = 0
                    /\ \A k \in DOMAIN log_debug : log_debug[k].name # name
                    /\ (\A j \in DOMAIN files_list :
                           C7_OtherCasing(basename(files_list[j].path))
                           \/ basename(files_list[j].path) \in C7_ExtraCharacters)
                       => used_rules = <<>>

C7_Witness ==
    /\ RulesDone
    /\ files_rules = "cheese_files"
    /\ files_list = <<NonEmptyFile("ReAdMe"), NonEmptyFile("install.txt.txt")>>
    /\ scores = <<0, 0>>
    /\ used_rules = <<>>

\* The names and extensions of the Doc rules of cheese_files.
C8_Names ==
    {"readme", "license", "copying", "announce", "changelog", "changes", "install",
     "authors", "faq", "news", "thanks", "todo"}

C8_Extensions == {".html", ".txt", ".rst"}

C8_Alone == RulesDone /\ files_rules = "cheese_files" /\ Len(files_list) = 1
            /\ files_list[1].size # 0

C8_HasName(x) == \E n \in C8_Names : x.root \in {n, upper(n), capitalize(n)}

\* C8 as stated: a name-with-optional-extensions rule matches the name with no
\* extension or with a listed extension in every casing of the extension's letters.
C8_AnyCasingOfExtension ==
    C8_Alone =>
        LET x == splitext(basename(files_list[1].path))
        IN  (C8_HasName(x) /\ (x.ext = "" \/ lower(x.ext) \in C8_Extensions))
                => scores[1] # 0

\* C8: a name-with-optional-extensions rule matches the name with no extension,
\* or with a listed extension written all in lower case or all in upper case; a
\* listed extension in mixed case ('news.Txt') does not match.
C8_LowerOrUpperExtension ==
    C8_Alone =>
        LET x == splitext(basename(files_list[1].path))
        IN  /\ (/\ C8_HasName(x)
                /\ (x.ext = "" \/ \E e \in C8_Extensions : x.ext \in {e, upper(e)}))
               => scores[1] # 0
            /\ (/\ C8_HasName(x)
                /\ lower(x.ext) \in C8_Extensions
                /\ (\A e \in C8_Extensions : x.ext \notin {e, upper(e)}))
               => scores[1] = 0

C8_Witness ==
    /\ RulesDone
    /\ files_rules = "cheese_files"
    /\ files_list = <<NonEmptyFile("NEWS.HTML")>>
    /\ scores = <<10>>

\* C11: static mode runs no code of the package.  With static_only set, no state
\* of any run has install_pkg among the steps run; from decide_before_download
\* on IndexInstall is out of the tree and 'installed' is not in the root's
\* requirements.
C11_StaticNeverInstalls ==
    cheesecake.static_only =>
        /\ ~InList("install_pkg", steps_run)
        /\ GatedBefore =>
              /\ "IndexInstall" \notin InTree(subindices)
              /\ "installed" \notin Range(requirements(Heap, Root))

\* A static run that got past the install_pkg position of __init__: the package
\* was unpacked and walked, not installed.
C11_Witness ==
    /\ pc = "initialized"
    /\ cheesecake.static_only
    /\ InList("unpack_pkg", steps_run)
    /\ InList("walk_pkg", steps_run)
    /\ ~InList("install_pkg", steps_run)

\* The lists of seqs, one after the other.
RECURSIVE C12_Concat(_)
C12_Concat(seqs) == IF seqs = <<>> THEN <<>> ELSE Head(seqs) \o C12_Concat(Tail(seqs))

\* C12: in every state reached by the API calls, the requirements of a node
\* without subindices are the argument names of its compute; those of a node
\* with subindices are its own argument names followed by the requirements of
\* each child now in subindices, in child order; so a name is required by a
\* node iff the node or a descendant now in the tree takes it as an argument.
C12_Requirements ==
    \A n \in ApiNodes :
        /\ subindices[n] = <<>> => requirements(Heap, n) = ComputeArguments(n)
        /\ requirements(Heap, n) =
              ComputeArguments(n) \o
              C12_Concat([i \in DOMAIN subindices[n] |->
                             requirements(Heap, subindices[n][i])])
        /\ Range(requirements(Heap, n)) =
              UNION {Range(ComputeArguments(m)) : m \in {n} \cup Descendants(subindices, n)}

\* IndexUnpack().add_subindex(IndexInstall()): own argument, then the child's.
C12_Witness ==
    /\ last = [op |-> "add_subindex", node |-> "IndexUnpack"]
    /\ raised = "none"
    /\ subindices["IndexUnpack"] = <<"IndexInstall">>
    /\ requirements(Heap, "IndexUnpack") = <<"unpacked", "installed", "sandbox_install_dir">>

\* The leaves computed by compute_cheesecake_index with an absent input.
C13_LeavesMissingInput ==
    {n \in InTree(pre_subindices) : HasOwnCompute(n) /\ NoneArguments(n, cheesecake) # {}}

\* C13 as stated: when compute_cheesecake_index computed a leaf one of whose
\* requirement names the Cheesecake instance does not have, the run was aborted
\* by a MissingInput fault.
C13_MissingInputAborts ==
    (pc = "computed" /\ C13_LeavesMissingInput # {}) => raised = "MissingInput"

\* C13, amended: a requirement name the Cheesecake instance does not have
\* raises no fault of its own; the leaf's compute is called with None for it.
\* IndexInstall without 'installed' scores 0 and IndexUnpackDir without
\* 'original_package_name' scores its max_value, both stay in the tree (unless
\* a print_info that raised took them or INSTALLABILITY out) and the run is not
\* aborted for it.
C13_MissingInputIsNone ==
    pc = "computed" =>
        \A n \in C13_LeavesMissingInput :
            /\ raised # "MissingInput"
            /\ n \in {"IndexInstall", "IndexUnpackDir"}
            /\ ({n, "IndexInstallability"} \cap cheesecake.print_fails = {})
                  => n \in InTree(subindices)
            /\ n = "IndexInstall" => value[n] = 0
            /\ n = "IndexUnpackDir" => value[n] = ClassMaxValue(n)

\* install_pkg ran and failed: IndexInstall was computed without 'installed'.
C13_Witness ==
    /\ pc = "computed"
    /\ InList("install_pkg", steps_run)
    /\ "installed" \in cheesecake.missing
    /\ "IndexInstall" \in C13_LeavesMissingInput
    /\ value["IndexInstall"] = 0
    /\ cheesecake.favourable = BuiltinLeaves
    /\ raised = "none"

(***************************************************************************)
(* Reported percentages                                                    *)
(***************************************************************************)
PercentageLines == {"_print_info_many", "summary"}

\* C14: every reported percentage, the one of the overall summary line
\* included, is the ceiling of value * 100 / max_value.
C14_PercentageIsCeil ==
    \A i \in DOMAIN events :
        events[i].ev \in PercentageLines =>
            events[i].percentage =
                ExactCeilPercentage(events[i].value, events[i].max_value)


\* C15: a max_value of 0 never reaches a division: the line of such a node
\* carries no percentage and the summary of compute_cheesecake_index does not
\* fail on the root's max_value being 0.
C15_NoDivisionByZero ==
    /\ raised # "ZeroDivisionError"
    /\ \A i \in DOMAIN events :
          events[i].ev \in PercentageLines => events[i].max_value # 0

(***************************************************************************)
(* The lifecycle of an index over a run.                                   *)
(***************************************************************************)
Prints == {"_print_info_one", "_print_info_many", "summary"}

\* Constructed, gated before download, gated after download, Computed, Reported.
Rank(ev) ==
    CASE ev = "__init__"               -> 1
      [] ev = "decide_before_download" -> 2
      [] ev = "decide_after_download"  -> 3
      [] ev = "compute_with"           -> 4
      [] ev \in Prints                 -> 5

EventsOf(n, ev) == {i \in DOMAIN history : history[i].node = n /\ history[i].ev = ev}

GatedAfter ==
    pc \in {"gated_after", "unpacked", "walked", "initialized", "computed", "cleaned"}

\* The leaves whose own decide_* answered no in a gating phase that is over.
GatedOut ==
    {n \in BuiltinLeaves :
        \/ /\ GatedBefore
           /\ HasCustomPredicate(n, "before_download")
           /\ ~Predicate(n, "before_download", cheesecake)
        \/ /\ GatedAfter
           /\ HasCustomPredicate(n, "after_download")
           /\ ~Predicate(n, "after_download", cheesecake)}

\* C16: over a run the events of one index come in the order __init__,
\* decide_before_download, decide_after_download, compute_with, report, each
\* at most once; an index removed in a gating phase (its decide_* answered no,
\* or the phase dropped it from the tree) never has compute_with called on it.
C16_Lifecycle ==
    /\ \A i, j \in DOMAIN history :
          (i < j /\ history[i].node = history[j].node) =>
              Rank(history[i].ev) < Rank(history[j].ev)
    /\ \A n \in GatedOut \cup removed.before_download \cup removed.after_download :
          EventsOf(n, "compute_with") = {}

\* A computed, reported run of an egg with static_only: IndexUnpack went through
\* the five events, IndexInstall was gated out before the download and
\* IndexSetupPy after it.
C16_Witness ==
    /\ pc = "computed"
    /\ \A ev \in {"__init__", "decide_before_download", "decide_after_download",
                  "compute_with", "_print_info_one"} :
          EventsOf("IndexUnpack", ev) # {}
    /\ "IndexInstall" \in GatedOut \cap removed.before_download
    /\ EventsOf("IndexInstall", "decide_before_download") # {}
    /\ "IndexSetupPy" \in GatedOut \cap removed.after_download
    /\ EventsOf("IndexSetupPy", "decide_after_download") # {}
    /\ EventsOf(Root, "summary") # {}

(***************************************************************************)
(* What a run leaves behind.                                               *)
(***************************************************************************)
RunFailed == pc = "failed" /\ raised = "CheesecakeError"

RunCleanedUp == pc = "cleaned"

\* C17: when the run has ended, by cleanup() after the computation or by the
\* CheesecakeError of raise_exception, the sandbox directory and the package
\* file in it are gone, and the log file exists iff the run failed with
\* CheesecakeError or keep_log was set.
C17_NothingLeftButTheLog ==
    (RunFailed \/ RunCleanedUp) =>
        /\ ~filesystem.sandbox
        /\ ~filesystem.sandbox_pkg_file
        /\ filesystem.logfile <=> (RunFailed \/ cheesecake.keep_log)

\* unpack_pkg could not unpack the package copied into the sandbox: the run
\* fails without keep_log and only the log file is left.
C17_Witness ==
    /\ RunFailed
    /\ last.op = "unpack_pkg"
    /\ InList("copy_pkg", steps_run)
    /\ ~cheesecake.keep_log
    /\ filesystem = [sandbox |-> FALSE, sandbox_pkg_file |-> FALSE, logfile |-> TRUE]

(***************************************************************************)
(* Properties of generate_arguments.                                       *)
(***************************************************************************)
RECURSIVE Characters(_), Concat(_), Chunks(_, _)

\* The number of characters of a list of strings.
Characters(L) == IF L = <<>> THEN 0 ELSE Len(Head(L)) + Characters(Tail(L))

Concat(chunks) == IF chunks = <<>> THEN <<>> ELSE Head(chunks) \o Concat(Tail(chunks))

\* The arguments the first k chunks received cover.
Covered(k) == Len(Concat(SubSeq(generator.yielded, 1, k)))

\* The greedy chunking of a list whose strings all fit: every chunk takes as
\* many of the next arguments as max_length allows.
Chunks(a, m) ==
    IF a = <<>> THEN <<>>
    ELSE LET n == CHOOSE k \in 1..Len(a) :
                      /\ Characters(SubSeq(a, 1, k)) <= m
                      /\ k < Len(a) => Characters(SubSeq(a, 1, k + 1)) > m
         IN  <<SubSeq(a, 1, n)>> \o Chunks(SubSeq(a, n + 1, Len(a)), m)

TooLong == {k \in DOMAIN generator.arguments :
               Len(generator.arguments[k]) > generator.max_length}

AllFit == generator.pc # "none" /\ TooLong = {}

C18_Chunks ==
    AllFit =>
        /\ generator.pc # "raised"
        /\ \A k \in DOMAIN generator.yielded :
              /\ generator.yielded[k] # <<>>
              /\ Characters(generator.yielded[k]) <= generator.max_length
              /\ Covered(k) < Len(generator.arguments) =>
                    Characters(generator.yielded[k])
                      + Len(generator.arguments[Covered(k) + 1]) > generator.max_length
        /\ Concat(generator.yielded)
             = SubSeq(generator.arguments, 1, Len(Concat(generator.yielded)))
        /\ generator.pc = "stopped" => Concat(generator.yielded) = generator.arguments

\* C18: when no argument is longer than max_length the generator ends, and
\* what it yielded are non-empty chunks of at most max_length characters
\* whose concatenation is the argument list, every chunk but the last being
\* maximal (the next argument would not fit).
C18_ChunksAndTermination ==
    /\ []C18_Chunks
    /\ AllFit ~> (generator.pc = "stopped")

\* The second call of the docstring has ended: a, bc, d e, f.
C18_Witness ==
    /\ generator.pc = "stopped"
    /\ generator.arguments = <<"a", "bc", "d", "e", "f">>
    /\ generator.max_length = 2
    /\ generator.yielded = << <<"a">>, <<"bc">>, <<"d", "e">>, <<"f">> >>

FirstTooLong == CHOOSE k \in TooLong : \A j \in TooLong : k <= j

Preceding == SubSeq(generator.arguments, 1, FirstTooLong - 1)

C19_Raised ==
    TooLong # {} =>
        /\ generator.pc # "stopped"
        /\ Len(generator.yielded) <= Len(Chunks(Preceding, generator.max_length))
        /\ generator.yielded
             = SubSeq(Chunks(Preceding, generator.max_length), 1, Len(generator.yielded))
        /\ generator.pc = "raised" =>
              /\ generator.error = <<generator.arguments[FirstTooLong]>>
              /\ generator.yielded = Chunks(Preceding, generator.max_length)

\* C19: when some argument is longer than max_length the generator ends with
\* ValueError naming the first such argument, having yielded exactly the
\* chunks of the arguments before it, and yields nothing more.
C19_ValueErrorAfterPrecedingChunks ==
    /\ []C19_Raised
    /\ (TooLong # {}) ~> (generator.pc = "raised")
    /\ [][generator.pc = "raised" => generator' = generator]_vars

\* The third call of the docstring: abc and de were yielded, then ValueError
\* for fghijk; l was never reached.
C19_Witness ==
    /\ generator.pc = "raised"
    /\ generator.arguments = <<"abc", "de", "fghijk", "l">>
    /\ generator.max_length = 4
    /\ generator.yielded = << <<"abc">>, <<"de">> >>
    /\ generator.error = <<"fghijk">>

\* The keys of the table the run was handed.
Keys == [i \in DOMAIN RuleTable(files_rules) |-> RuleTable(files_rules)[i].entry]

Missing == Range(get_not_used(used_rules, Keys))

\* C20: after a run every rule of the table is either returned by
\* get_not_used (reported as missing) or has added its weight to the value
\* exactly once, never both and never neither, overlapping tables included.
C20_MissingOrContributed ==
    RulesDone =>
        \A i \in DOMAIN RuleTable(files_rules) :
            LET rule == RuleTable(files_rules)[i]
            IN  /\ Contribution(rule.entry) \in {0, rule.value}
                /\ rule.entry \in Missing <=> Contribution(rule.entry) = 0

(***************************************************************************)
(* Properties of gating through the Index API.                             *)
(***************************************************************************)
DecideCalls == {"decide_before_download", "decide_after_download"}

When == IF last.op = "decide_before_download" THEN "before_download" ELSE "after_download"

\* The truth of what decide_<when> of index c answers on the tree sub: its own
\* predicate, or for the inherited one: no children, or a child that stays.
RECURSIVE Keeps(_, _, _, _)
Keeps(sub, c, when, ck) ==
    IF HasCustomPredicate(c, when) THEN Predicate(c, when, ck)
    ELSE sub[c] = <<>> \/ \E d \in Range(sub[c]) : Keeps(sub, d, when, ck)

\* C21: after decide on an interior node the remaining children are exactly
\* the children whose decide_<phase> answered true, in their original order,
\* and the call raises nothing, whatever the children list (two siblings of
\* the same name included).
C21_DecideKeepsTheTrueChildren ==
    (pc = "api" /\ last.op \in DecideCalls /\ pre_subindices[last.node] # <<>>) =>
        /\ raised = "none"
        /\ subindices[last.node]
             = SelectSeq(pre_subindices[last.node],
                         LAMBDA c : Keeps(pre_subindices, c, When, cheesecake))

\* The position in the log of the line written for candidate k.
LogIndex(k) == Cardinality({i \in 1..k : scores[i] # 0})

\* The rules of specs, in iteration order, that accept candidate k when the run
\* reaches it.
MatchingPositions(specs, k) ==
    LET before == compute_from_rules(SubSeq(files_list, 1, k - 1), specs).used
    IN  {q \in DOMAIN specs :
            match_filename(before, basename(files_list[k].path), specs[q].entry).ret}

FirstMatchConsumed(specs, k) ==
    LET matching == MatchingPositions(specs, k)
    IN  IF is_empty(files_list[k]) \/ matching = {}
        THEN scores[k] = 0
        ELSE LET p == CHOOSE q \in matching : \A r \in matching : q <= r
             IN  /\ scores[k] = specs[p].value
                 /\ log_debug[LogIndex(k)] =
                        [value |-> specs[p].value,
                         name  |-> basename(files_list[k].path),
                         entry |-> specs[p].entry]

\* C22: a matching run returns the number of candidates that consumed a rule and
\* the sum of the weights of the rules consumed; every non-empty candidate
\* consumes at most one rule, the first in iteration order that accepts it, and
\* no rule after that one is tested for it (one log line per scoring candidate).
C22_CountAndValueOfFirstMatches ==
    RulesDone =>
        /\ Len(scores) = Len(files_list)
        /\ files_count = Cardinality({k \in DOMAIN files_list : scores[k] # 0})
        /\ files_count = Len(log_debug)
        /\ files_value = SumSeq([i \in DOMAIN log_debug |-> log_debug[i].value])
        /\ \E specs \in IterItems(RuleTable(files_rules)) :
              \A k \in DOMAIN files_list : FirstMatchConsumed(specs, k)

\* 'news' is accepted by the seventh rule of cheese_files only, and 'Readme'
\* after it by the first.
C22_Witness ==
    /\ RulesDone
    /\ files_rules = "cheese_files"
    /\ files_list = <<NonEmptyFile("news"), NonEmptyFile("Readme")>>
    /\ scores = <<10, 30>>
    /\ files_count = 2
    /\ files_value = 40
    /\ Len(log_debug) = 2

\* C23: constructing Cheesecake with no package name, no URL and no path ends
\* with a CheesecakeError, as every call of raise_exception does, also the one
\* made before the sandbox and the logging are set up.
C23_NoPackageIsCheesecakeError ==
    (pc = "failed" /\ ~cheesecake.name /\ ~cheesecake.url /\ ~cheesecake.path) =>
        raised = "CheesecakeError"

\* The lines written for the messages sent through the producers of a set.
SentThrough(producers) ==
    {Message(logger.log[logger.sent[i].producer], logger.sent[i].content) :
        i \in {j \in DOMAIN logger.sent : logger.sent[j].producer \in producers}}

\* C24: after configure_logging every message sent through log.warn or
\* log.error is written to the log file and to stdout, and every message sent
\* through log, log.info or log.debug is written to the log file.
C24_WarnAndErrorReachBoth ==
    pc = "logging_configured" =>
        /\ \A line \in SentThrough({"log", "info", "debug"}) :
              InList(line, logger.logfile)
        /\ \A line \in SentThrough({"warn", "error"}) :
              InList(line, logger.logfile) /\ InList(line, logger.stdout)

\* C25: for the ratio r = docformat_cnt / object_cnt IndexFormattedDocstrings
\* gives 30 when r >= 75%, 20 when 50% <= r < 75%, 10 when 25% <= r < 50%, and
\* 0 below 25% or when object_cnt is 0.
C25_PointsAtTheThresholds ==
    docstrings.pc = "returned" =>
        LET o == docstrings.object_cnt
            d == docstrings.docformat_cnt
        IN  docstrings.value =
                IF o > 0 /\ 4 * d >= 3 * o THEN 30
                ELSE IF o > 0 /\ 2 * d >= o THEN 20
                ELSE IF o > 0 /\ 4 * d >= o THEN 10
                ELSE 0

RECURSIVE SumOver(_, _)
SumOver(S, f) ==
    IF S = {} THEN 0
    ELSE LET x == CHOOSE y \in S : TRUE
         IN  f[x] + SumOver(S \ {x}, f)

\* The leaves currently below n, and their values where positive.
LeavesBelow(n) == {l \in Descendants(subindices, n) : subindices[l] = <<>>}

PositiveValue == [l \in Nodes |-> IF value[l] > 0 THEN value[l] ELSE 0]

\* C26: after compute_with on the tree, the value of every node that sums its
\* children is at most the sum of the positive values of the leaves currently
\* below it, and every node's max_value is >= 0, also where a penalty leaf makes
\* a value negative.
C26_ValueAtMostPositiveLeaves ==
    pc = "computed" =>
        \A n \in InTree(subindices) :
            /\ max_value(Heap, n) >= 0
            /\ ~HasOwnCompute(n) => value[n] <= SumOver(LeavesBelow(n), PositiveValue)

\* Every order of a list.
Permuted(s) ==
    {[i \in DOMAIN s |-> s[f[i]]] :
        f \in {g \in [DOMAIN s -> DOMAIN s] : \A i, j \in DOMAIN s : i # j => g[i] # g[j]}}

\* The top-level rules of a table that a run with used rules `used` left.
Unconsumed(used, table) ==
    {table[i].entry : i \in {j \in DOMAIN table : ~InList(table[j].entry, used)}}

BuiltinTables == {"cheese_files", "cheese_dirs", "files_rules"}

\* The outcome of a run: matched count, total value, unconsumed top-level rules.
Outcome(r, table) ==
    <<r.files_count, r.value, Unconsumed(r.used, table)>>

\* C27: for the built-in rule tables the matched count, the total value and the
\* set of unconsumed top-level rules of a run are those of the run over any
\* other iteration order of the table, and those of the run over any other
\* order of the same candidates (which is a run of its own, so that the two
\* together cover every pair of orders).
C27_OrderInsensitive ==
    (RulesDone /\ files_rules \in BuiltinTables) =>
        LET table == RuleTable(files_rules)
            outcome == <<files_count, files_value, Unconsumed(used_rules, table)>>
        IN  /\ \A specs \in IterItems(table) :
                  Outcome(compute_from_rules(files_list, specs), table) = outcome
            /\ \A files \in Permuted(files_list) :
                  Outcome(compute_from_rules(files, table), table) = outcome

\* 'COPYING' and 'License.html' compete for one rule and 'news' takes another.
C27_Witness ==
    /\ RulesDone
    /\ files_rules = "cheese_files"
    /\ files_list \in {<<NonEmptyFile("COPYING"), NonEmptyFile("License.html")>>,
                       <<NonEmptyFile("news"), NonEmptyFile("COPYING")>>}
    /\ files_count = Len(files_list) - (IF files_list[1].path = "COPYING" THEN 1 ELSE 0)
    /\ Cardinality(Unconsumed(used_rules, cheese_files)) = 9 - files_count

\* C28: IndexPyLint.compute leaves the working directory of the process as it
\* was before the call on every exit path, also when pylint exceeds its maximum
\* execution time and the index raises to be removed from the score.
C28_WorkingDirectoryRestored ==
    pc = "computed" => cwd = "original_cwd"

\* node[name]: Index.__getitem__ reads _indices_dict.
Resolves(n, c) == Name(c) \in DOMAIN indices_dict[n] /\ indices_dict[n][Name(c)] = c

\* C29: in every state reached by add_subindex, remove_subindex, decide and
\* compute_with calls, node[name] resolves to a child iff that child is in the
\* node's subindices.  This is the half that says a child removed by gating or
\* by fault isolation is no longer reachable by name: whatever node[name]
\* resolves to is in subindices.
C29_LookupIffChild ==
    \A n \in Nodes : \A c \in Nodes : Resolves(n, c) => c \in Range(subindices[n])

\* The parent a node had when the last call started.
PreParent(c) == CHOOSE p \in Nodes : c \in Range(pre_subindices[p])

\* C30: during a gating phase an interior child all of whose children the phase
\* removed is itself removed from its parent, and a node that is a leaf is kept
\* by its parent unless its own predicate is false; after the phase no node
\* below the gated one that had children remains in the tree without any.
C30_EmptiedInteriorRemoved ==
    (pc = "api" /\ last.op \in DecideCalls) =>
        \A c \in Descendants(pre_subindices, last.node) :
            IF pre_subindices[c] # <<>>
            THEN subindices[c] = <<>> => c \notin Descendants(subindices, last.node)
            ELSE c \in Range(subindices[PreParent(c)])
                    <=> (HasCustomPredicate(c, When) => Predicate(c, When, cheesecake))
====
